---- MODULE Spec2Model ----
(***************************************************************************)
(* Contact-information extraction for NPRI facility pages.                 *)
(*                                                                         *)
(* One extraction attempt of each of the three extractors                  *)
(*   extract_contact_with_progress   (improved_contact_extractor.py)       *)
(*   scrape_contact_info_selenium    (extract_contact_info.py)             *)
(*   extract_contact_info_enhanced   (enhanced_contact_extractor.py)       *)
(* is modelled as a state machine: driver launch, navigation, the          *)
(* readiness wait, the capture of the page source, the extraction methods  *)
(* and the driver clean-up.  The rendered page is a sequence of text       *)
(* fragments (one fragment per DOM cell) joined by single spaces; the      *)
(* regular expressions of the source are evaluated character by character  *)
(* on that text.  Time is counted in seconds.                              *)
(***************************************************************************)
EXTENDS Integers, Sequences, FiniteSets, TLC

(***************************************************************************)
(* Bounds of the model.                                                    *)
(***************************************************************************)
\* Longest page, in fragments.
MaxLen == 2
\* Granularity, in seconds, at which WebDriverWait.until polls the page
\* (the library polls every 0.5 s; any period gives the same outcomes:
\* found at some poll before the deadline, or timed out after it).
PollInterval == 20
\* Companies in the list given to process_all_companies.
MaxCompanies == 2
\* Longest results listing, in elements.
MaxItems == 4
\* Longest list of per-company results given to a writer of the report.
MaxTargets == 3
\* Longest position text, in characters.
MaxPosition == 4
\* download_timeout, in seconds, of the two download functions, and the
\* sleep between two looks at the download directory.
NpriDownloadTimeout == 30
CompanyDownloadTimeout == 15
DownloadSleep == 1
\* "=" * 50 in save_results_to_file.
RuleLength == 50

(***************************************************************************)
(* Characters and character classes.                                       *)
(***************************************************************************)
UpperSeq == <<"A","B","C","D","E","F","G","H","I","J","K","L","M",
              "N","O","P","Q","R","S","T","U","V","W","X","Y","Z">>
LowerSeq == <<"a","b","c","d","e","f","g","h","i","j","k","l","m",
              "n","o","p","q","r","s","t","u","v","w","x","y","z">>
Upper == {UpperSeq[i] : i \in 1..26}
Letters == Upper \cup {LowerSeq[i] : i \in 1..26}
Digits == {"0","1","2","3","4","5","6","7","8","9"}
Ws == {" ", "\n", "\t", "\r"}
Punct == {":", "-", "(", ")", "@", ".", ",", "_", "%", "+", "{", "}",
          "<", ">", "/", "\\"}
\* A digit that is not a decimal digit: SUPERSCRIPT TWO.
OtherDigits == {"²"}
Chars == Letters \cup Digits \cup Ws \cup Punct \cup OtherDigits

\* str.lower() / re.IGNORECASE on one character.
ToLower == [c \in Chars |->
              IF c \in Upper
                THEN LowerSeq[CHOOSE i \in 1..26 : UpperSeq[i] = c]
                ELSE c]

\* str.upper() on one character.
ToUpper == [c \in Chars |->
              IF c \in Letters \ Upper
                THEN UpperSeq[CHOOSE i \in 1..26 : LowerSeq[i] = c]
                ELSE c]

\* [0-9\-\(\)\s]
PhoneClass == Digits \cup {"-", "(", ")"} \cup Ws
\* [a-zA-Z0-9._%+-]
EmailLocalClass == Letters \cup Digits \cup {".", "_", "%", "+", "-"}
\* [a-zA-Z0-9.-]
EmailDomainClass == Letters \cup Digits \cup {".", "-"}
\* [A-Za-z\s]
LetterWsClass == Letters \cup Ws
\* [^0-9]
NonDigitClass == Chars \ Digits
\* [^a-zA-Z]
NonLetterClass == Chars \ Letters
\* [^}]
NonBraceClass == Chars \ {"}"}
\* [^\\n\\r\\}] in a raw string: anything but a backslash, n, r or a closing
\* brace; under IGNORECASE also N and R.
NoBackslashNRBraceClass == Chars \ {"\\", "n", "r", "N", "R", "}"}
\* [^\\n\\r] in a raw string: anything but a backslash, n or r (N, R).
NoBackslashNRClass == Chars \ {"\\", "n", "r", "N", "R"}
\* [^\n\r}]
NoNewlineBraceClass == Chars \ {"\n", "\r", "}"}

(***************************************************************************)
(* Text fragments a page is made of, with their characters.                *)
(***************************************************************************)
TokenChars ==
       "Contact information" :> <<"C", "o", "n", "t", "a", "c", "t", " ", "i", "n", "f", "o", "r", "m", "a", "t", "i", "o", "n">>
    @@ "Business number" :> <<"B", "u", "s", "i", "n", "e", "s", "s", " ", "n", "u", "m", "b", "e", "r">>
    @@ "Facility details" :> <<"F", "a", "c", "i", "l", "i", "t", "y", " ", "d", "e", "t", "a", "i", "l", "s">>
    @@ "Number of full-time employee equivalents" :> <<"N", "u", "m", "b", "e", "r", " ", "o", "f", " ", "f", "u", "l", "l", "-", "t", "i", "m", "e", " ", "e", "m", "p", "l", "o", "y", "e", "e", " ", "e", "q", "u", "i", "v", "a", "l", "e", "n", "t", "s">>
    @@ "Phone:" :> <<"P", "h", "o", "n", "e", ":">>
    @@ "Email:" :> <<"E", "m", "a", "i", "l", ":">>
    @@ "Position:" :> <<"P", "o", "s", "i", "t", "i", "o", "n", ":">>
    @@ "Contact Language:" :> <<"C", "o", "n", "t", "a", "c", "t", " ", "L", "a", "n", "g", "u", "a", "g", "e", ":">>
    @@ "403-555-0000" :> <<"4", "0", "3", "-", "5", "5", "5", "-", "0", "0", "0", "0">>
    @@ "587-315-1181" :> <<"5", "8", "7", "-", "3", "1", "5", "-", "1", "1", "8", "1">>
    @@ "1-587-315-1181" :> <<"1", "-", "5", "8", "7", "-", "3", "1", "5", "-", "1", "1", "8", "1">>
    @@ "8631088330" :> <<"8", "6", "3", "1", "0", "8", "8", "3", "3", "0">>
    @@ "863108833" :> <<"8", "6", "3", "1", "0", "8", "8", "3", "3">>
    @@ "12" :> <<"1", "2">>
    @@ "Colin Hennel" :> <<"C", "o", "l", "i", "n", " ", "H", "e", "n", "n", "e", "l">>
    @@ "Jane Doe" :> <<"J", "a", "n", "e", " ", "D", "o", "e">>
    @@ "chennel@pinecliffenergy.com" :> <<"c", "h", "e", "n", "n", "e", "l", "@", "p", "i", "n", "e", "c", "l", "i", "f", "f", "e", "n", "e", "r", "g", "y", ".", "c", "o", "m">>
    @@ "info@acme.ca" :> <<"i", "n", "f", "o", "@", "a", "c", "m", "e", ".", "c", "a">>
    @@ "English" :> <<"E", "n", "g", "l", "i", "s", "h">>
    @@ "Manager, HSE and Regulatory" :> <<"M", "a", "n", "a", "g", "e", "r", ",", " ", "H", "S", "E", " ", "a", "n", "d", " ", "R", "e", "g", "u", "l", "a", "t", "o", "r", "y">>
    @@ "{{x}}" :> <<"{", "{", "x", "}", "}">>
    @@ "<b>" :> <<"<", "b", ">">>
    @@ "</b>" :> <<"<", "/", "b", ">">>
    @@ "<b>587-315-1181</b>" :> <<"<", "b", ">", "5", "8", "7", "-", "3", "1", "5", "-", "1", "1", "8", "1", "<", "/", "b", ">">>

\* The fragments pages are drawn from.
Alphabet == {"Contact information", "Business number", "Facility details",
             "Phone:", "Position:", "403-555-0000", "587-315-1181",
             "1-587-315-1181", "8631088330", "Colin Hennel",
             "<b>587-315-1181</b>", "{{x}}"}

Pages == UNION {[1..n -> Alphabet] : n \in 0..MaxLen}

\* driver.page_source of a page: its fragments separated by one space.
RECURSIVE Text(_)
Text(page) ==
    IF page = <<>> THEN <<>>
    ELSE IF Len(page) = 1 THEN TokenChars[page[1]]
    ELSE TokenChars[page[1]] \o <<" ">> \o Text(Tail(page))

Low(t) == [i \in 1..Len(t) |-> ToLower[t[i]]]
Up(t) == [i \in 1..Len(t) |-> ToUpper[t[i]]]

(***************************************************************************)
(* Regular-expression building blocks on a text t (a character sequence).  *)
(* A match result is <<>> (no match) or <<group>> (the captured group).    *)
(***************************************************************************)
Min(S) == CHOOSE x \in S : \A y \in S : x <= y
Max(S) == CHOOSE x \in S : \A y \in S : x >= y

\* Number of consecutive characters of class C from position i on.
RECURSIVE Run(_, _, _)
Run(t, i, C) == IF i > Len(t) \/ t[i] \notin C THEN 0 ELSE 1 + Run(t, i + 1, C)

Sub(t, i, n) == SubSeq(t, i, i + n - 1)

\* The literal lit occurs in t at position i.
LitAt(t, i, lit) ==
    /\ i >= 1
    /\ i + Len(lit) - 1 <= Len(t)
    /\ \A k \in 1..Len(lit) : t[i + k - 1] = lit[k]

\* Start positions of the literal in t.
Occ(t, lit) == {i \in 1..Len(t) : LitAt(t, i, lit)}

\* re.search: the match at the leftmost start position that matches at all.
\* M maps each position to the match starting there.
FirstMatch(starts, M) ==
    LET ok == {i \in starts : M[i] # <<>>}
    IN IF ok = {} THEN <<>> ELSE M[Min(ok)]

\* The positions of a text, the end included.
Positions(t) == 1..(Len(t) + 1)

\* str.strip()
RECURSIVE StripLeft(_)
StripLeft(s) == IF s # <<>> /\ s[1] \in Ws THEN StripLeft(Tail(s)) ELSE s
RECURSIVE StripRight(_)
StripRight(s) ==
    IF s # <<>> /\ s[Len(s)] \in Ws THEN StripRight(SubSeq(s, 1, Len(s) - 1)) ELSE s
Strip(s) == StripRight(StripLeft(s))

\* re.sub(r"\{\{[^}]*\}\}", "", s)
RECURSIVE RemovePlaceholders(_)
RemovePlaceholders(s) ==
    IF s = <<>> THEN <<>>
    ELSE IF LitAt(s, 1, <<"{", "{">>)
            /\ LitAt(s, 3 + Run(s, 3, NonBraceClass), <<"}", "}">>)
         THEN RemovePlaceholders(
                  SubSeq(s, 5 + Run(s, 3, NonBraceClass), Len(s)))
         ELSE <<s[1]>> \o RemovePlaceholders(Tail(s))

(***************************************************************************)
(* Literals of the source (lower case: they are searched under IGNORECASE).*)
(***************************************************************************)
LitBusinessNumber == <<"b", "u", "s", "i", "n", "e", "s", "s", " ", "n", "u", "m", "b", "e", "r">>
LitEmployeesLong == <<"n", "u", "m", "b", "e", "r", " ", "o", "f", " ", "f", "u", "l", "l", "-", "t", "i", "m", "e", " ", "e", "m", "p", "l", "o", "y", "e", "e", " ", "e", "q", "u", "i", "v", "a", "l", "e", "n", "t", "s">>
LitEmployee == <<"e", "m", "p", "l", "o", "y", "e", "e">>
LitPhone == <<"p", "h", "o", "n", "e", ":">>
LitEmail == <<"e", "m", "a", "i", "l", ":">>
LitLanguage == <<"c", "o", "n", "t", "a", "c", "t", " ", "l", "a", "n", "g", "u", "a", "g", "e", ":">>
LitContactInformation == <<"c", "o", "n", "t", "a", "c", "t", " ", "i", "n", "f", "o", "r", "m", "a", "t", "i", "o", "n">>
LitPosition == <<"p", "o", "s", "i", "t", "i", "o", "n", ":">>
LitBackslashN == <<"\\", "n">>
LitBackslashR == <<"\\", "r">>
KnownBusinessNumber == <<"8", "6", "3", "1", "0", "8", "8", "3", "3">>
KnownName == <<"c", "o", "l", "i", "n", " ", "h", "e", "n", "n", "e", "l">>
KnownPosition == <<"m", "a", "n", "a", "g", "e", "r", ",", " ", "h", "s", "e", " ", "a", "n", "d", " ", "r", "e", "g", "u", "l", "a", "t", "o", "r", "y">>
KnownPhone == <<"5", "8", "7", "-", "3", "1", "5", "-", "1", "1", "8", "1">>
KnownEmail == <<"c", "h", "e", "n", "n", "e", "l", "@", "p", "i", "n", "e", "c", "l", "i", "f", "f", "e", "n", "e", "r", "g", "y", ".", "c", "o", "m">>
KnownLanguage == <<"e", "n", "g", "l", "i", "s", "h">>
\* The values stored for the known contact, as written in the source.
ValueName == <<"C", "o", "l", "i", "n", " ", "H", "e", "n", "n", "e", "l">>
ValuePosition == <<"M", "a", "n", "a", "g", "e", "r", ",", " ", "H", "S", "E", " ", "a", "n", "d", " ", "R", "e", "g", "u", "l", "a", "t", "o", "r", "y">>
ValueLanguage == <<"E", "n", "g", "l", "i", "s", "h">>

(***************************************************************************)
(* Pattern tails: what follows the label of a labelled-field pattern.      *)
(* e is the position of the first character after the label.               *)
(***************************************************************************)
\* [^0-9]*([0-9]{9})
TailNineDigits(t, e) ==
    LET d == e + Run(t, e, NonDigitClass)
    IN IF Run(t, d, Digits) >= 9 THEN <<Sub(t, d, 9)>> ELSE <<>>

\* [^0-9]*([0-9]+)
TailDigits(t, e) ==
    LET d == e + Run(t, e, NonDigitClass)
        r == Run(t, d, Digits)
    IN IF r >= 1 THEN <<Sub(t, d, r)>> ELSE <<>>

\* \s*(C+): greedy white space, then the longest group of class C; when no
\* character of C follows the white space, \s* gives back white space until
\* the group can start.
TailGreedyGroup(t, e, C) ==
    LET w == Run(t, e, Ws)
        ok == {wp \in 0..w : Run(t, e + wp, C) >= 1}
    IN IF ok = {} THEN <<>>
       ELSE <<Sub(t, e + Max(ok), Run(t, e + Max(ok), C))>>

\* \s*([0-9\-\(\)\s]+)
TailPhone(t, e) == TailGreedyGroup(t, e, PhoneClass)

\* \s*([a-zA-Z0-9._%+-]+@[a-zA-Z0-9.-]+\.[a-zA-Z]{2,})
TailEmail(t, e) ==
    LET a == e + Run(t, e, Ws)
        l == Run(t, a, EmailLocalClass)
        b == a + l + 1
        d == Run(t, b, EmailDomainClass)
        dots == {m \in 1..d : /\ b + m <= Len(t)
                              /\ t[b + m] = "."
                              /\ Run(t, b + m + 1, Letters) >= 2}
    IN IF l >= 1 /\ a + l <= Len(t) /\ t[a + l] = "@" /\ dots # {}
         THEN <<Sub(t, a, l + 1 + Max(dots) + 1
                            + Run(t, b + Max(dots) + 1, Letters))>>
         ELSE <<>>

\* \s*([A-Za-z]+)
TailLanguage(t, e) ==
    LET a == e + Run(t, e, Ws)
        g == Run(t, a, Letters)
    IN IF g >= 1 THEN <<Sub(t, a, g)>> ELSE <<>>

\* ([A-Z][a-z]+ [A-Z][a-z]+) at position a, under IGNORECASE: two words of
\* at least two letters separated by one space.
TwoWordsAt(t, a) ==
    LET w1 == Run(t, a, Letters)
        w2 == Run(t, a + w1 + 1, Letters)
    IN IF w1 >= 2 /\ a + w1 <= Len(t) /\ t[a + w1] = " " /\ w2 >= 2
         THEN <<Sub(t, a, w1 + 1 + w2)>>
         ELSE <<>>

\* [^a-zA-Z]*([A-Z][a-z]+ [A-Z][a-z]+)
TailNameAfterAnchor(t, e) == TwoWordsAt(t, e + Run(t, e, NonLetterClass))

\* ([A-Z][a-z]+ [A-Z][a-z]+)[\s\n]*Position: starting at position s
NameBeforePosition(t, lt, s) ==
    LET w1 == Run(t, s, Letters)
        q == s + w1 + 1
        cand == {v \in 2..Run(t, q, Letters) :
                    LitAt(lt, q + v + Run(t, q + v, Ws), LitPosition)}
    IN IF w1 >= 2 /\ s + w1 <= Len(t) /\ t[s + w1] = " " /\ cand # {}
         THEN <<Sub(t, s, w1 + 1 + Max(cand))>>
         ELSE <<>>

\* \s*(C+?)(?:terminator): greedy white space, then the shortest group of
\* class C that is followed by a terminator.
TailLazyGroup(t, e, C, Term) ==
    LET w == Run(t, e, Ws)
        Cand(wp) == {g \in 1..Run(t, e + wp, C) : Term[e + wp + g]}
        ws == {wp \in 0..w : Cand(wp) # {}}
    IN IF ws = {} THEN <<>>
       ELSE <<Sub(t, e + Max(ws), Min(Cand(Max(ws))))>>

\* \s+Phone:
TermWsPhone(t, lt, p) ==
    LET r == Run(t, p, Ws) IN r >= 1 /\ LitAt(lt, p + r, LitPhone)
\* $
TermEnd(t, p) == p = Len(t) + 1 \/ (p = Len(t) /\ t[p] = "\n")

\* [^}]*?(G) : the group at the nearest position reachable over non-brace
\* characters.
TailLazySkip(t, e, G) ==
    FirstMatch({e + k : k \in 0..Run(t, e, NonBraceClass)}, G)

\* [^}]*?([A-Za-z\s]+)\s+Position:
TailNameSelenium(t, lt, e) ==
    TailLazySkip(t, e, [a \in Positions(t) |->
        LET cand == {g \in 1..Run(t, a, LetterWsClass) :
                        LET r == Run(t, a + g, Ws)
                        IN r >= 1 /\ LitAt(lt, a + g + r, LitPosition)}
        IN IF cand = {} THEN <<>> ELSE <<Sub(t, a, Max(cand))>>])

\* re.search(label + tail, text, re.IGNORECASE)
SearchLabel(lt, lit, After) ==
    FirstMatch(Occ(lt, lit), [i \in Occ(lt, lit) |-> After[i + Len(lit)]])

(***************************************************************************)
(* Field maps (Python dicts): functions from keys to values; a value is the *)
(* sequence of the characters of the string.                               *)
(***************************************************************************)
EmptyMap == <<>>
Put(m, k, v) == [x \in (DOMAIN m) \cup {k} |-> IF x = k THEN v ELSE m[x]]
\* Python's None.
None == [none |-> "None"]

\* contact_info[key] = match.group(1)
PutMatch(m, k, r) == IF r = <<>> THEN m ELSE Put(m, k, r[1])
\* contact_info[key] = match.group(1).strip()
PutStripped(m, k, r) == IF r = <<>> THEN m ELSE Put(m, k, Strip(r[1]))
\* if key not in contact_info: ... contact_info[key] = match.group(1).strip()
PutNew(m, k, r) == IF k \in DOMAIN m THEN m ELSE PutStripped(m, k, r)
\* if re.search(literal, page_source): contact_info[key] = value
PutLiteral(m, k, found, v) == IF found THEN Put(m, k, v) ELSE m

(***************************************************************************)
(* extract_contact_with_progress: the four extraction methods.             *)
(***************************************************************************)
\* (?:Number of full-time employee equivalents|employees?)[^0-9]*([0-9]+)
EmployeesKnownPattern(t, lt) ==
    FirstMatch(Occ(lt, LitEmployeesLong) \cup Occ(lt, LitEmployee),
               [i \in Positions(t) |->
                   TailDigits(t, i + (IF LitAt(lt, i, LitEmployeesLong)
                       THEN Len(LitEmployeesLong)
                       ELSE Len(LitEmployee)))])

\* Method 1: the known values of NPRI 1368.
Method1Progress(npri_id, t, lt) ==
    IF npri_id # "1368" THEN EmptyMap
    ELSE
      LET a == PutLiteral(EmptyMap, "business_number",
                          Occ(lt, KnownBusinessNumber) # {},
                          KnownBusinessNumber)
          b == PutMatch(a, "employees", EmployeesKnownPattern(t, lt))
          c == PutLiteral(b, "contact_name", Occ(lt, KnownName) # {},
                          ValueName)
          d == PutLiteral(c, "position", Occ(lt, KnownPosition) # {},
                          ValuePosition)
          e == PutLiteral(d, "phone", Occ(lt, KnownPhone) # {}, KnownPhone)
          f == PutLiteral(e, "email", Occ(lt, KnownEmail) # {},
                          KnownEmail)
      IN PutLiteral(f, "language", Occ(lt, KnownLanguage) # {}, ValueLanguage)

\* Method 2: the generic labelled patterns, for keys not yet present.
Method2Progress(t, lt, ci) ==
    LET a == PutNew(ci, "business_number",
                    SearchLabel(lt, LitBusinessNumber,
                                [e \in Positions(t) |-> TailNineDigits(t, e)]))
        b == PutNew(a, "employees",
                    SearchLabel(lt, LitEmployeesLong,
                                [e \in Positions(t) |-> TailDigits(t, e)]))
        c == PutNew(b, "phone",
                    SearchLabel(lt, LitPhone, [e \in Positions(t) |->
                                                  TailPhone(t, e)]))
        d == PutNew(c, "email",
                    SearchLabel(lt, LitEmail, [e \in Positions(t) |->
                                                  TailEmail(t, e)]))
    IN PutNew(d, "language",
              SearchLabel(lt, LitLanguage, [e \in Positions(t) |->
                                               TailLanguage(t, e)]))

\* Method 3: the contact name, by the first name pattern that matches.
Method3Progress(t, lt, ci) ==
    IF "contact_name" \in DOMAIN ci THEN ci
    ELSE
      LET r1 == SearchLabel(lt, LitContactInformation,
                            [e \in Positions(t) |-> TailNameAfterAnchor(t, e)])
          r2 == FirstMatch(1..Len(t), [s \in Positions(t) |->
                                          NameBeforePosition(t, lt, s)])
      IN IF r1 # <<>> THEN PutStripped(ci, "contact_name", r1)
         ELSE PutStripped(ci, "contact_name", r2)

\* position.strip(), placeholders removed, .strip()
CleanPosition(r) == Strip(RemovePlaceholders(Strip(r[1])))

\* Position:\s*([^\\n\\r\\}]+?)(?:\s+Phone:|Email:|$)
PositionPattern1(t, lt) ==
    SearchLabel(lt, LitPosition, [e \in Positions(t) |->
        TailLazyGroup(t, e, NoBackslashNRBraceClass,
                      [p \in Positions(t) |->
                          \/ TermWsPhone(t, lt, p)
                          \/ LitAt(lt, p, LitEmail)
                          \/ TermEnd(t, p)])])

\* Position:\s*([^\n\r}]+?)(?:\s+Phone:|Email:|Contact Language:)
PositionPattern2(t, lt) ==
    SearchLabel(lt, LitPosition, [e \in Positions(t) |->
        TailLazyGroup(t, e, NoNewlineBraceClass,
                      [p \in Positions(t) |->
                          \/ TermWsPhone(t, lt, p)
                          \/ LitAt(lt, p, LitEmail)
                          \/ LitAt(lt, p, LitLanguage)])])

\* Method 4: the position, by the first pattern whose cleaned match is not
\* empty.
Method4Progress(t, lt, ci) ==
    IF "position" \in DOMAIN ci THEN ci
    ELSE
      LET r1 == PositionPattern1(t, lt)
          r2 == PositionPattern2(t, lt)
      IN IF r1 # <<>> /\ CleanPosition(r1) # <<>>
           THEN Put(ci, "position", CleanPosition(r1))
         ELSE IF r2 # <<>> /\ CleanPosition(r2) # <<>>
           THEN Put(ci, "position", CleanPosition(r2))
         ELSE ci

\* contact_info after each of the four methods.
MethodsProgress(npri_id, page) ==
    LET t == Text(page)
        lt == Low(t)
        s1 == Method1Progress(npri_id, t, lt)
        s2 == Method2Progress(t, lt, s1)
        s3 == Method3Progress(t, lt, s2)
        s4 == Method4Progress(t, lt, s3)
    IN <<s1, s2, s3, s4>>

(***************************************************************************)
(* scrape_contact_info_selenium: the text patterns and the two DOM methods.*)
(* Every fragment of the page is the text of one td/span element.          *)
(***************************************************************************)
\* Method 1: every pattern that matches is stored, stripped.
Method1Selenium(t, lt) ==
    LET a == PutStripped(EmptyMap, "name",
                 SearchLabel(lt, LitContactInformation,
                             [e \in Positions(t) |->
                                 TailNameSelenium(t, lt, e)]))
        b == PutStripped(a, "position",
                 SearchLabel(lt, LitPosition,
                             [e \in Positions(t) |->
                                 TailGreedyGroup(t, e, NoBackslashNRClass)]))
        c == PutStripped(b, "phone",
                 SearchLabel(lt, LitPhone, [e \in Positions(t) |->
                                               TailPhone(t, e)]))
        d == PutStripped(c, "email",
                 SearchLabel(lt, LitEmail, [e \in Positions(t) |->
                                               TailEmail(t, e)]))
    IN PutStripped(d, "language",
                   SearchLabel(lt, LitLanguage, [e \in Positions(t) |->
                                                    TailLanguage(t, e)]))

\* The literals of the XPath queries (contains() is case sensitive).
XPathEmployeeLabel == <<"N", "u", "m", "b", "e", "r", " ", "o", "f", " ", "f", "u", "l", "l", "-", "t", "i", "m", "e", " ", "e", "m", "p", "l", "o", "y", "e", "e">>

\* driver.find_elements(By.XPATH, "//*[contains(text(), lit)]"): the
\* positions of the elements whose text contains the literal.
FindElements(page, lit) ==
    {i \in 1..Len(page) : Occ(TokenChars[page[i]], lit) # {}}

\* element.text.strip()
ElementText(page, i) == Strip(TokenChars[page[i]])

\* Method 2: business number and employee count read from table cells.
\* raise_at = 0: no lookup raises; 1, 2: that lookup raises and the except
\* clause of the method ends it.  The employee value is the cell that
\* follows the label cell in its row; when there is none, find_element
\* raises and the inner bare except passes.
Method2Selenium(page, ci, raise_at) ==
    LET bn == FindElements(page, KnownBusinessNumber)
        emp == FindElements(page, XPathEmployeeLabel)
        a == IF raise_at # 1 /\ bn # {}
               THEN Put(ci, "business_number", ElementText(page, Min(bn)))
               ELSE ci
    IN IF raise_at = 0 /\ emp # {} /\ Min(emp) < Len(page)
         THEN Put(a, "employees", ElementText(page, Min(emp) + 1))
         ELSE a

\* Method 3: the known contact of NPRI 1368, looked up in any element.
\* raise_at = 0: no lookup raises; 1..3: that lookup raises.
Method3Selenium(page, ci, raise_at) ==
    LET reached(k) == raise_at = 0 \/ raise_at > k
        a == IF reached(1) /\ FindElements(page, ValueName) # {}
               THEN Put(ci, "name", ValueName) ELSE ci
        b == IF reached(2) /\ FindElements(page, KnownPhone) # {}
               THEN Put(a, "phone", KnownPhone) ELSE a
    IN IF reached(3) /\ FindElements(page, KnownEmail) # {}
         THEN Put(b, "email", KnownEmail) ELSE b

\* contact_info after each of the three methods.
MethodsSelenium(page, raise2, raise3) ==
    LET t == Text(page)
        s1 == Method1Selenium(t, Low(t))
        s2 == Method2Selenium(page, s1, raise2)
        s3 == Method3Selenium(page, s2, raise3)
    IN <<s1, s2, s3>>

(***************************************************************************)
(* extract_contact_info_enhanced: one pass over seven patterns.            *)
(***************************************************************************)
\* value = matches[0].strip(); placeholders removed; .strip()
PutCleaned(m, k, r) ==
    IF r = <<>> THEN m
    ELSE Put(m, k, Strip(RemovePlaceholders(Strip(r[1]))))

\* (\d{9}) and (\d+) at position a
NineDigitsAt(t, a) == IF Run(t, a, Digits) >= 9 THEN <<Sub(t, a, 9)>> ELSE <<>>
DigitsAt(t, a) ==
    IF Run(t, a, Digits) >= 1 THEN <<Sub(t, a, Run(t, a, Digits))>> ELSE <<>>

\* (?:\s+|\\n|\\r|$)
TermPhoneEnhanced(t, lt, p) ==
    \/ Run(t, p, Ws) >= 1
    \/ LitAt(lt, p, LitBackslashN)
    \/ LitAt(lt, p, LitBackslashR)
    \/ TermEnd(t, p)

PatternsEnhanced(t, lt) ==
    LET a == PutCleaned(EmptyMap, "business_number",
                 SearchLabel(lt, LitBusinessNumber, [e \in Positions(t) |->
                     TailLazySkip(t, e, [x \in Positions(t) |->
                                            NineDigitsAt(t, x)])]))
        b == PutCleaned(a, "employees",
                 SearchLabel(lt, LitEmployeesLong, [e \in Positions(t) |->
                     TailLazySkip(t, e, [x \in Positions(t) |->
                                            DigitsAt(t, x)])]))
        c == PutCleaned(b, "contact_name",
                 SearchLabel(lt, LitContactInformation, [e \in Positions(t) |->
                     TailLazySkip(t, e, [x \in Positions(t) |->
                                            TwoWordsAt(t, x)])]))
        d == PutCleaned(c, "position",
                 SearchLabel(lt, LitPosition, [e \in Positions(t) |->
                     TailLazyGroup(t, e, NoBackslashNRBraceClass,
                                   [p \in Positions(t) |->
                                       \/ TermWsPhone(t, lt, p)
                                       \/ TermEnd(t, p)])]))
        f == PutCleaned(d, "phone",
                 SearchLabel(lt, LitPhone, [e \in Positions(t) |->
                     TailLazyGroup(t, e, PhoneClass,
                                   [p \in Positions(t) |->
                                       TermPhoneEnhanced(t, lt, p)])]))
        g == PutCleaned(f, "email",
                 SearchLabel(lt, LitEmail, [e \in Positions(t) |->
                                               TailEmail(t, e)]))
    IN PutCleaned(g, "language",
                  SearchLabel(lt, LitLanguage, [e \in Positions(t) |->
                                                   TailLanguage(t, e)]))

\* contact_info after the single method.
MethodsEnhanced(page) == LET t == Text(page) IN <<PatternsEnhanced(t, Low(t))>>

(***************************************************************************)
(* The value each extractor hands back, and what the caller makes of it.   *)
(***************************************************************************)
Extractors == {"progress", "selenium", "enhanced"}
NpriIds == {"1368", "6626"}

\* A return statement that hands back the dict as it is: what ReturnValue
\* would be without its None branch.
ReturnValueAsIs(e, ci) == ci

\* `return contact_info if contact_info else None`; the enhanced extractor
\* returns the dict as it is, empty or not.
ReturnValue(e, ci) ==
    IF e = "enhanced" THEN ci
    ELSE IF ci # EmptyMap THEN ci ELSE None

\* "success": contact_info is not None
SuccessFlag(r) == r # None

\* No function catches what its body raises.
NoOuterExcept(e) == FALSE

\* Whether the function body sits in a try whose `except Exception` returns
\* None.
OuterExcept(e) == e \in {"progress", "selenium"}

\* The keys assigned from a literal of the source rather than from the page.
LiteralKeysProgress(id, log) ==
    IF id = "1368" THEN DOMAIN log[1] \ {"employees"} ELSE {}
LiteralKeysSelenium(page, raise_at) ==
    LET reached(k) == raise_at = 0 \/ raise_at > k
    IN {k \in {"name", "phone", "email"} :
          \/ k = "name" /\ reached(1) /\ FindElements(page, ValueName) # {}
          \/ k = "phone" /\ reached(2) /\ FindElements(page, KnownPhone) # {}
          \/ k = "email" /\ reached(3) /\ FindElements(page, KnownEmail) # {}}

(***************************************************************************)
(* The readiness wait.                                                     *)
(***************************************************************************)
Anchors == {"Contact information", "Business number", "Facility details"}

\* The anchors whose presence ends the wait.
WaitAnchors(e) ==
    IF e = "progress" THEN {"Contact information", "Business number"}
    ELSE Anchors

\* for i in range(6): time.sleep(5)
ProgressPolls == 6
ProgressSleep == 5
\* time.sleep before the WebDriverWait, its budget, and the sleep after it.
SeleniumInitialWait == 10
SeleniumTimeout == 45
SeleniumSettle == 15
EnhancedInitialWait == 20
EnhancedTimeout == 30
EnhancedSettle == 10

InitialWaitOf(e) ==
    IF e = "selenium" THEN SeleniumInitialWait ELSE EnhancedInitialWait
TimeoutOf(e) == IF e = "selenium" THEN SeleniumTimeout ELSE EnhancedTimeout
SettleOf(e) == IF e = "selenium" THEN SeleniumSettle ELSE EnhancedSettle

\* A wait whose only handler is the bare `except:`: what WaitCatches would
\* be without `except TimeoutException`.
WaitCatchesBareOnly(e, timeout) == e = "enhanced"

\* Whether an exception raised inside wait.until is caught where the wait
\* is made: TimeoutException in both, anything else only by the bare
\* `except:` of the enhanced extractor.
WaitCatches(e, timeout) ==
    IF e = "progress" THEN timeout ELSE timeout \/ e = "enhanced"

(***************************************************************************)
(* One call of an extractor.                                               *)
(***************************************************************************)
VARIABLES
    extractor,    \* which of the three functions is called
    npri_id,      \* its argument
    pc,           \* the statement the call is at
    driver,       \* "none", "open" or "closed"
    now,          \* seconds slept since the call began
    attempts,     \* i of the polling loop of extract_contact_with_progress
    end_time,     \* deadline of the WebDriverWait
    polled,       \* anchors the document showed at the latest poll
    detected,     \* the wait ended because an anchor was found
    detected_at,  \* when it was found
    timed_out,    \* the wait ended because its budget ran out
    page_source,  \* the captured page
    captured_at,  \* when it was captured
    steps,        \* contact_info after each extraction method
    dom_raised,   \* which DOM lookups of Methods 2 and 3 raised
    failure,      \* the collaborator call that raised, if any
    exc,          \* an exception is propagating to the finally clause
    outcome,      \* "running", "returned" or "raised"
    result,       \* the value of the return statement
    company,      \* i of the loop of process_all_companies
    previous,     \* the attempt made for the company before this one
    resolver,     \* which lookup of main.py runs: "static" or "selenium"
    listing,      \* the results listing the server answers with
    rpc,          \* the position of the lookup
    table_i,      \* i of `for i, table in enumerate(tables)`, from 1
    first_npri_id, \* the value the lookup returns
    route,        \* the return statement the lookup left through
    contact_data, \* the list of per-company results a writer is given
    writer,       \* the function that writes the CSV report
    fieldnames,   \* the columns of the CSV file
    csv_rows,     \* the rows written to the CSV file
    wpc,          \* the position of the writer
    write_error,  \* the writer ended in its except clause
    companies,    \* the company names main() of main.py read
    site,         \* what the two lookups find for a company
    results,      \* the triples main() has collected
    mpc,          \* the position of main()
    saved,        \* the results save_results_to_file is given
    file_lines,   \* the lines of company_npri_ids.txt
    companies_and_ids, \* what read_npri_ids_from_file returns
    companies_data, \* what the reader of process_all_companies collects
    fpc,          \* "idle", "save", "read", "read_again" or "done"
    all_results,  \* the entries the per-company loop has appended
    lpc,          \* "idle", "loop" or "saved"
    downloader,   \* the module whose download function runs
    directory,    \* the files in the download directory
    initial_files, \* the files of the snapshot taken before the click
    elapsed,      \* time.time() - start_time, in seconds
    dpc,          \* the position of the download function
    returned      \* the triple the download function returned

vars == <<extractor, npri_id, pc, driver, now, attempts, end_time, polled,
          detected, detected_at, timed_out, page_source, captured_at, steps,
          dom_raised, failure, exc, outcome, result, company, previous,
          resolver, listing, rpc, table_i, first_npri_id, route,
          contact_data, writer, fieldnames, csv_rows, wpc, write_error,
          companies, site, results, mpc,
          saved, file_lines, companies_and_ids, companies_data, fpc,
          all_results, lpc,
          downloader, directory, initial_files, elapsed, dpc, returned>>

\* The identifier lookup of main.py, which runs before any extractor.
lookup == <<resolver, listing, rpc, table_i, first_npri_id, route>>

\* The writer of the CSV report.
report == <<contact_data, writer, fieldnames, csv_rows, wpc, write_error>>

\* main() of main.py and its process_single_company.
batch == <<companies, site, results, mpc>>

\* The identifier results file, its writer and its two readers.
ids_file == <<saved, file_lines, companies_and_ids, companies_data, fpc>>

\* The loop over the companies around an extractor.
loop == <<all_results, lpc>>

\* The download of the CSV file after the click.
download == <<downloader, directory, initial_files, elapsed, dpc, returned>>

\* The programs around the extractors.
tools == <<report, batch, ids_file, loop, download>>

\* What a call is made with, and what the lookup before it left; none of it
\* changes while the call runs.
args == <<extractor, npri_id, company, previous, lookup, tools>>
wait == <<attempts, end_time, polled, detected, detected_at, timed_out>>
capture == <<page_source, captured_at>>

NoResult == [none |-> "no value"]

\* contact_info as it stands.
ContactInfo == IF steps = <<>> THEN EmptyMap ELSE steps[Len(steps)]

\* The pages of at most one fragment.
LoopPages == {<<>>} \cup {<<a>> : a \in Alphabet}

\* The documents the browser may show: any page for the first company; for
\* a later company the page shown for the one before, or an empty page.
\* Where the result list of the loop is followed, every company is shown a
\* page of at most one fragment.
Documents ==
    IF lpc = "loop" THEN LoopPages
    ELSE IF previous = <<>> THEN Pages
    ELSE {previous.page_source, <<>>}

\* A dict that is handed on from one attempt to the next: what
\* NewContactInfo would be if contact_info were not created afresh.
KeptContactInfo(left) == left

\* contact_info = {}: the dict the methods of an attempt write into; left
\* is the contact_info the attempt before ended with.
NewContactInfo(left) == EmptyMap

\* The writes of the methods (m) on top of the dict they start from.
Onto(start, m) ==
    [k \in DOMAIN start \cup DOMAIN m |->
        IF k \in DOMAIN start THEN start[k] ELSE m[k]]

\* No lookup is running.
LookupIdle ==
    /\ resolver = "static"
    /\ listing = <<>>
    /\ rpc = "idle"
    /\ table_i = 0
    /\ first_npri_id = NoResult
    /\ route = "none"

InitExtractor ==
    /\ extractor \in Extractors
    /\ npri_id \in NpriIds
    /\ pc = "launch"
    /\ driver = "none"
    /\ now = 0
    /\ attempts = 0
    /\ end_time = 0
    /\ polled = {}
    /\ detected = FALSE
    /\ detected_at = -1
    /\ timed_out = FALSE
    /\ page_source = <<>>
    /\ captured_at = -1
    /\ steps = <<>>
    /\ dom_raised = <<0, 0>>
    /\ failure = "none"
    /\ exc = FALSE
    /\ outcome = "running"
    /\ result = NoResult
    /\ company = 1
    /\ previous = <<>>

\* No report is being written.
ReportIdle ==
    /\ contact_data = <<>>
    /\ writer = "none"
    /\ fieldnames = {}
    /\ csv_rows = <<>>
    /\ wpc = "idle"
    /\ write_error = FALSE

BatchIdle ==
    /\ companies = <<>>
    /\ site = NoResult
    /\ results = <<>>
    /\ mpc = "idle"

IdsFileIdle ==
    /\ saved = <<>>
    /\ file_lines = <<>>
    /\ companies_and_ids = <<>>
    /\ companies_data = <<>>
    /\ fpc = "idle"

LoopIdle ==
    /\ all_results = <<>>
    /\ lpc = "idle"

DownloadIdle ==
    /\ downloader = "none"
    /\ directory = {}
    /\ initial_files = {}
    /\ elapsed = 0
    /\ dpc = "idle"
    /\ returned = NoResult

ToolsIdle == ReportIdle /\ BatchIdle /\ IdsFileIdle /\ LoopIdle /\ DownloadIdle

Init == InitExtractor /\ LookupIdle /\ ToolsIdle

\* An exception leaves the function body: the outer `except Exception`
\* turns it into `return None` where there is one.
Propagate ==
    IF OuterExcept(extractor)
      THEN outcome' = "returned" /\ result' = None
      ELSE outcome' = "raised" /\ result' = NoResult

\* driver = webdriver.Chrome(...)
Launch ==
    /\ pc = "launch"
    /\ driver' = "open"
    /\ pc' = "get"
    /\ UNCHANGED <<args, now, wait, capture, steps, dom_raised, failure, exc,
                   outcome, result>>

\* The import of selenium or the launch of the browser raises: no driver
\* exists yet and the inner try has not been entered.
LaunchFails ==
    /\ pc = "launch"
    /\ failure' = "launch"
    /\ pc' = "done"
    /\ Propagate
    /\ UNCHANGED <<args, driver, now, wait, capture, steps, dom_raised, exc>>

\* driver.get(url)
Navigate ==
    /\ pc = "get"
    /\ pc' = IF extractor = "progress" THEN "wait" ELSE "initial_wait"
    /\ UNCHANGED <<args, driver, now, wait, capture, steps, dom_raised,
                   failure, exc, outcome, result>>

NavigateFails ==
    /\ pc = "get"
    /\ failure' = "get"
    /\ exc' = TRUE
    /\ pc' = "finally"
    /\ UNCHANGED <<args, driver, now, wait, capture, steps, dom_raised,
                   outcome, result>>

\* time.sleep(...); wait = WebDriverWait(driver, timeout); wait.until
\* starts its clock.
InitialWait ==
    /\ pc = "initial_wait"
    /\ now' = now + InitialWaitOf(extractor)
    /\ end_time' = now' + TimeoutOf(extractor)
    /\ pc' = "wait"
    /\ UNCHANGED <<args, driver, attempts, polled, detected, detected_at,
                   timed_out, capture, steps, dom_raised, failure, exc,
                   outcome, result>>

\* One iteration of `for i in range(6)`: sleep, read the page, look for an
\* anchor, break if one is there; the else branch of the loop when the
\* iterations are used up.
PollProgress ==
    /\ pc = "wait"
    /\ extractor = "progress"
    /\ now' = now + ProgressSleep
    /\ \E seen \in SUBSET Anchors :
          /\ polled' = seen
          /\ IF seen \cap WaitAnchors(extractor) # {}
               THEN /\ detected' = TRUE
                    /\ detected_at' = now'
                    /\ UNCHANGED <<attempts, timed_out>>
               ELSE /\ attempts' = attempts + 1
                    /\ timed_out' = (attempts' = ProgressPolls)
                    /\ UNCHANGED <<detected, detected_at>>
    /\ pc' = IF detected' \/ timed_out' THEN "capture" ELSE "wait"
    /\ UNCHANGED <<args, driver, end_time, capture, steps, dom_raised,
                   failure, exc, outcome, result>>

\* One round of WebDriverWait.until: evaluate the condition; return if it
\* holds; otherwise sleep one poll period and raise TimeoutException once
\* the deadline has passed.
PollWait ==
    /\ pc = "wait"
    /\ extractor # "progress"
    /\ \E seen \in SUBSET Anchors :
          /\ polled' = seen
          /\ IF seen \cap WaitAnchors(extractor) # {}
               THEN /\ detected' = TRUE
                    /\ detected_at' = now
                    /\ UNCHANGED <<now, timed_out>>
               ELSE /\ now' = now + PollInterval
                    /\ timed_out' = (now' > end_time)
                    /\ UNCHANGED <<detected, detected_at>>
    /\ pc' = IF detected' THEN "settle"
             ELSE IF ~timed_out' THEN "wait"
             ELSE IF WaitCatches(extractor, TRUE) THEN "settle"
             ELSE "finally"
    /\ exc' = (timed_out' /\ ~WaitCatches(extractor, TRUE))
    /\ UNCHANGED <<args, driver, attempts, end_time, capture, steps,
                   dom_raised, failure, outcome, result>>

\* Reading the page during the wait raises something other than a timeout.
PollFails ==
    /\ pc = "wait"
    /\ failure' = "poll"
    /\ IF WaitCatches(extractor, FALSE)
         THEN pc' = "settle" /\ UNCHANGED exc
         ELSE pc' = "finally" /\ exc' = TRUE
    /\ UNCHANGED <<args, driver, now, wait, capture, steps, dom_raised,
                   outcome, result>>

\* time.sleep(...) after the wait, whichever way it ended.
Settle ==
    /\ pc = "settle"
    /\ now' = now + SettleOf(extractor)
    /\ polled' = {}
    /\ pc' = "capture"
    /\ UNCHANGED <<args, driver, attempts, end_time, detected, detected_at,
                   timed_out, capture, steps, dom_raised, failure, exc,
                   outcome, result>>

\* page_source = driver.page_source: the document as it is at this moment.
Capture ==
    /\ pc = "capture"
    /\ \E page \in Documents : page_source' = page
    /\ captured_at' = now
    /\ polled' = {}
    /\ pc' = "extract"
    /\ UNCHANGED <<args, driver, now, attempts, end_time, detected,
                   detected_at, timed_out, steps, dom_raised, failure, exc,
                   outcome, result>>

\* The read of the page source raises.  scrape_contact_info_selenium reads
\* it inside the try around its methods, so contact_info stays empty and
\* the function goes on to its return statement.
CaptureFails ==
    /\ pc = "capture"
    /\ failure' = "capture"
    /\ polled' = {}
    /\ IF extractor = "selenium"
         THEN result' = ReturnValue(extractor, ContactInfo) /\ UNCHANGED exc
         ELSE exc' = TRUE /\ UNCHANGED result
    /\ pc' = "finally"
    /\ UNCHANGED <<args, driver, now, attempts, end_time, detected,
                   detected_at, timed_out, capture, steps, dom_raised,
                   outcome>>

\* The extraction methods, in their order, and the return statement.
Extract ==
    /\ pc = "extract"
    /\ \/ /\ extractor = "progress"
          /\ \E start \in {NewContactInfo(IF previous = <<>> THEN EmptyMap
                                            ELSE previous.contact_info)},
                log \in {MethodsProgress(npri_id, page_source)} :
                steps' = <<Onto(start, log[1]), Onto(start, log[2]),
                           Onto(start, log[3]), Onto(start, log[4])>>
          /\ UNCHANGED dom_raised
       \/ /\ extractor = "selenium"
          /\ \E raise2 \in 0..2, raise3 \in 0..3 :
                /\ steps' = MethodsSelenium(page_source, raise2, raise3)
                /\ dom_raised' = <<raise2, raise3>>
       \/ /\ extractor = "enhanced"
          /\ steps' = MethodsEnhanced(page_source)
          /\ UNCHANGED dom_raised
    /\ result' = ReturnValue(extractor, steps'[Len(steps')])
    /\ pc' = "finally"
    /\ UNCHANGED <<args, driver, now, wait, capture, failure, exc, outcome>>

\* finally: driver.quit(), after input() has returned in the enhanced
\* extractor; then the return value or the exception leaves the body.
Quit ==
    /\ pc = "finally"
    /\ driver' = "closed"
    /\ pc' = "done"
    /\ IF exc THEN Propagate ELSE outcome' = "returned" /\ UNCHANGED result
    /\ UNCHANGED <<args, now, wait, capture, steps, dom_raised, failure, exc>>

\* finally: input("Press Enter to close browser...") raises (end of input,
\* or an interrupt at the prompt): driver.quit() is not reached.
InputFails ==
    /\ pc = "finally"
    /\ extractor = "enhanced"
    /\ failure' = "input"
    /\ pc' = "done"
    /\ outcome' = "raised"
    /\ result' = NoResult
    /\ UNCHANGED <<args, driver, now, wait, capture, steps, dom_raised, exc>>

Next ==
    \/ Launch
    \/ LaunchFails
    \/ Navigate
    \/ NavigateFails
    \/ InitialWait
    \/ PollProgress
    \/ PollWait
    \/ PollFails
    \/ Settle
    \/ Capture
    \/ CaptureFails
    \/ Extract
    \/ Quit
    \/ InputFails

Spec == Init /\ [][Next]_vars

(***************************************************************************)
(* process_all_companies: extract_contact_with_progress is called once per *)
(* company, one call after the other has returned.                         *)
(***************************************************************************)

\* The next iteration of `for i, (company_name, npri_id) in enumerate(...)`:
\* after the call has returned, time.sleep(5), and the extractor is called
\* for the next company.  The
\* clock and the locals of the call start over; previous keeps what the
\* finished call was given, saw and returned.
StartNext ==
    /\ pc = "done"
    /\ outcome = "returned"
    /\ company < MaxCompanies
    /\ company' = company + 1
    /\ previous' = [npri_id |-> npri_id, extracted |-> steps # <<>>,
                    page_source |-> page_source,
                    contact_info |-> ContactInfo, result |-> result]
    /\ npri_id' \in NpriIds
    /\ pc' = "launch"
    /\ driver' = "none"
    /\ now' = 0
    /\ attempts' = 0
    /\ end_time' = 0
    /\ polled' = {}
    /\ detected' = FALSE
    /\ detected_at' = -1
    /\ timed_out' = FALSE
    /\ page_source' = <<>>
    /\ captured_at' = -1
    /\ steps' = <<>>
    /\ dom_raised' = <<0, 0>>
    /\ failure' = "none"
    /\ exc' = FALSE
    /\ outcome' = "running"
    /\ result' = NoResult

NextCompany ==
    /\ extractor = "progress"
    /\ StartNext
    /\ UNCHANGED <<extractor, lookup, tools>>

InitRepeat == Init /\ extractor = "progress"

NextRepeat ==
    \/ Launch
    \/ LaunchFails
    \/ Navigate
    \/ NavigateFails
    \/ PollProgress
    \/ PollFails
    \/ Capture
    \/ CaptureFails
    \/ Extract
    \/ Quit
    \/ NextCompany

SpecRepeat == InitRepeat /\ [][NextRepeat]_vars

(***************************************************************************)
(* main.py: the results listing and what BeautifulSoup finds in it.        *)
(* A listing is a sequence of elements: a table marker stands for          *)
(* <table><tr><th>Company</th><th>h</th></tr><tr>, a row marker for        *)
(* </tr><tr>, and every other element is one cell, holding a text or one   *)
(* link.  Elements before the first table marker lie outside any table.    *)
(***************************************************************************)
Table(h) == [tag |-> "table", text |-> h, href |-> <<>>]
Tr == [tag |-> "tr", text |-> <<>>, href |-> <<>>]
Td(text) == [tag |-> "td", text |-> text, href |-> <<>>]
A(href, text) == [tag |-> "a", text |-> text, href |-> href]

TextCompany == <<"C", "o", "m", "p", "a", "n", "y">>
TextNpriId == <<"N", "P", "R", "I", " ", "I", "D">>
TextRegistryId == <<"R", "e", "g", "i", "s", "t", "r", "y", " ", "I", "D">>
TextAcmeCorp == <<"A", "c", "m", "e", " ", "C", "o", "r", "p">>
TextLtd == <<"L", "t", "d">>
Text1368 == <<"1", "3", "6", "8">>
Text4821 == <<"4", "8", "2", "1">>
Text999 == <<"9", "9", "9">>
TextView == <<"V", "i", "e", "w">>
TextSuperscript == <<"²">>
HrefYear4821 == <<".", "/", "2", "0", "2", "4", "/", "4", "8", "2", "1">>
HrefFacility999 == <<"/", "f", "a", "c", "i", "l", "i", "t", "y", "/", "9", "9", "9">>

\* The elements listings are drawn from.
Elements == {Table(TextNpriId), Table(TextRegistryId), Tr,
             Td(TextAcmeCorp), Td(TextLtd), Td(Text1368),
             A(HrefYear4821, Text4821), A(HrefFacility999, Text999),
             A(HrefYear4821, TextView), A(HrefYear4821, TextSuperscript)}

Listings == UNION {[1..n -> Elements] : n \in 0..MaxItems}

\* The company the listing was queried for, as it stands in the url:
\* urllib.parse.unquote(url.split("name=")[1].split("&")[0]), and
\* company_name_decoded.replace(".", "").split().
CompanyNameDecoded == <<"A", "c", "m", "e", " ", "L", "t", "d", ".">>

\* s.replace(c, "")
RECURSIVE Without(_, _)
Without(t, c) ==
    IF t = <<>> THEN <<>>
    ELSE (IF t[1] = c THEN <<>> ELSE <<t[1]>>) \o Without(Tail(t), c)

\* s.split(): the words between runs of whitespace.
RECURSIVE Split(_)
Split(t) ==
    IF StripLeft(t) = <<>> THEN <<>>
    ELSE LET u == StripLeft(t)
             n == Run(u, 1, Chars \ Ws)
         IN <<Sub(u, 1, n)>> \o Split(SubSeq(u, n + 1, Len(u)))

CompanyKeywords == Split(Without(CompanyNameDecoded, "."))

IsTable(e) == e.tag = "table"
IsRowBreak(e) == e.tag = "tr"
IsLink(e) == e.tag = "a"

\* row.find_all(["td", "th"]) of the rows a run of elements makes up.
RECURSIVE SplitRows(_)
SplitRows(seg) ==
    LET breaks == {i \in 1..Len(seg) : IsRowBreak(seg[i])}
    IN IF breaks = {} THEN <<seg>>
       ELSE <<SubSeq(seg, 1, Min(breaks) - 1)>>
            \o SplitRows(SubSeq(seg, Min(breaks) + 1, Len(seg)))

\* soup.find_all("table"), each table as table.find_all("tr"): the header
\* row and the rows after it.
RECURSIVE FindAllTables(_)
FindAllTables(l) ==
    LET starts == {i \in 1..Len(l) : IsTable(l[i])}
    IN IF starts = {} THEN <<>>
       ELSE LET rest == SubSeq(l, Min(starts) + 1, Len(l))
                more == {i \in 1..Len(rest) : IsTable(rest[i])}
                last == IF more = {} THEN Len(rest) ELSE Min(more) - 1
            IN <<<<<<Td(TextCompany), Td(l[Min(starts)].text)>>>>
                 \o SplitRows(SubSeq(rest, 1, last))>>
               \o FindAllTables(SubSeq(rest, last + 1, Len(rest)))

\* get_text() of a run of cells: their strings, one after the other.
RECURSIVE GetText(_)
GetText(cells) ==
    IF cells = <<>> THEN <<>>
    ELSE (IF IsRowBreak(cells[1]) THEN <<>>
          ELSE IF IsTable(cells[1]) THEN TextCompany \o cells[1].text
          ELSE cells[1].text) \o GetText(Tail(cells))

\* The cells of all the rows, in document order.
RECURSIVE Flatten(_)
Flatten(rows) ==
    IF rows = <<>> THEN <<>> ELSE rows[1] \o Flatten(Tail(rows))

\* str.isdigit(): not empty, and every character is a digit, decimal or not.
IsDigit(t) == t # <<>> /\ \A i \in 1..Len(t) : t[i] \in Digits \cup OtherDigits

\* "/2024/" in href
LitYear == <<"/", "2", "0", "2", "4", "/">>
YearScoped(href) == Occ(href, LitYear) # {}

\* re.search(r"/2024/(\d+)", href): <<>> or <<group 1>>.
HrefMatch(href) ==
    LET at == {i \in Occ(href, LitYear) : Run(href, i + 6, Digits) >= 1}
    IN IF at = {} THEN <<>>
       ELSE <<Sub(href, Min(at) + 6, Run(href, Min(at) + 6, Digits))>>

LitNpri == <<"N", "P", "R", "I">>
LitId == <<"I", "D">>
KnownNpriIds == <<Text1368, <<"6", "6", "2", "6">>, <<"1", "5", "0", "9", "8">>>>

\* The headers, counted from 1, that hold both "NPRI" and "ID".
NpriHeaders(table) ==
    {k \in 1..Len(table[1]) :
        /\ Occ(Up(Strip(table[1][k].text)), LitNpri) # {}
        /\ Occ(Up(Strip(table[1][k].text)), LitId) # {}}

\* npri_id_index after the loop over header_texts, where it is not None:
\* the first such header, counted from 0.
NpriIdIndex(table) == Min(NpriHeaders(table)) - 1

\* A filter that lets every keyword through.
AnyLength(keyword) == TRUE

\* if len(keyword) > 3
LongEnough(keyword) == Len(keyword) > 3

\* any(keyword.lower() in row_text.lower() for keyword in company_keywords
\*     if len(keyword) > 3)
KeywordRow(row) ==
    \E k \in 1..Len(CompanyKeywords) :
        /\ LongEnough(CompanyKeywords[k])
        /\ Occ(Low(GetText(row)), Low(CompanyKeywords[k])) # {}

\* The loop over all_links_in_row: <<>> or <<link_text, route>> of the
\* first link that one of the two branches returns.
LinkInRow(row) ==
    LET links == SelectSeq(row, IsLink)
        hits == {i \in 1..Len(links) :
                    /\ IsDigit(Strip(links[i].text))
                    /\ \/ YearScoped(links[i].href)
                       \/ Len(Strip(links[i].text)) >= 3}
    IN IF hits = {} THEN <<>>
       ELSE <<Strip(links[Min(hits)].text),
              IF YearScoped(links[Min(hits)].href)
                THEN "row_year_link" ELSE "row_numeric_link">>

\* The link inside the cell of the NPRI ID column.
CellInRow(row, npri_id_index) ==
    IF /\ Len(row) > npri_id_index
       /\ IsLink(row[npri_id_index + 1])
       /\ IsDigit(Strip(row[npri_id_index + 1].text))
      THEN <<Strip(row[npri_id_index + 1].text), "row_cell_link">>
      ELSE <<>>

\* What one iteration of the loop over all_rows returns, if it returns.
RowReturn(row, npri_id_index) ==
    IF ~KeywordRow(row) THEN <<>>
    ELSE IF LinkInRow(row) # <<>> THEN LinkInRow(row)
    ELSE CellInRow(row, npri_id_index)

\* A loop over the rows in which no iteration returns.
NoReturningRows(table, npri_id_index) == {}

\* The rows whose iteration returns.
ReturningRows(table, npri_id_index) ==
    {r \in 1..Len(table) : RowReturn(table[r], npri_id_index) # <<>>}

\* The loop over all_links of the table: the first link with a year-scoped
\* target and a numeric text, or with an identifier in its target.
LinkInTable(table) ==
    LET links == SelectSeq(Flatten(table), IsLink)
        hits == {i \in 1..Len(links) :
                    \/ YearScoped(links[i].href) /\ IsDigit(Strip(links[i].text))
                    \/ HrefMatch(links[i].href) # <<>>}
    IN IF hits = {} THEN <<>>
       ELSE IF /\ YearScoped(links[Min(hits)].href)
               /\ IsDigit(Strip(links[Min(hits)].text))
              THEN <<Strip(links[Min(hits)].text), "table_year_link">>
              ELSE <<HrefMatch(links[Min(hits)].href)[1], "table_href">>

\* The loop over every cell of every row: the first all-digit text of at
\* least three characters.
CellInTable(table) ==
    LET cells == Flatten(table)
        hits == {i \in 1..Len(cells) :
                    /\ IsDigit(Strip(cells[i].text))
                    /\ Len(Strip(cells[i].text)) >= 3}
    IN IF hits = {} THEN <<>>
       ELSE <<Strip(cells[Min(hits)].text), "table_cell">>

\* The loop over known_npri_ids on soup.get_text().
KnownIdInText(l) ==
    LET hits == {k \in 1..Len(KnownNpriIds) : Occ(GetText(l), KnownNpriIds[k]) # {}}
    IN IF hits = {} THEN <<>> ELSE <<KnownNpriIds[Min(hits)], "known_id">>

\* The two loops of scrape_with_selenium over the links of the page; detail
\* holds the positions of the links of class detail-link.
LinkWithSelenium(l, detail) ==
    LET hits == {i \in 1..Len(l) :
                    /\ IsLink(l[i])
                    /\ YearScoped(l[i].href)
                    /\ IsDigit(Strip(l[i].text))}
    IN IF hits \cap detail # {}
         THEN <<Strip(l[Min(hits \cap detail)].text), "detail_link">>
       ELSE IF hits # {} THEN <<Strip(l[Min(hits)].text), "any_link">>
       ELSE <<>>

(***************************************************************************)
(* main.py: download_npri_csv_with_selenium and scrape_with_selenium.      *)
(***************************************************************************)
\* The variables of the extractors, which a lookup leaves alone.
call == <<extractor, npri_id, company, previous, pc, driver, now, wait,
          capture, steps, dom_raised, failure, exc, outcome, result>>

Tables == FindAllTables(listing)

InitLookup ==
    /\ resolver \in {"static", "selenium"}
    /\ listing = <<>>
    /\ rpc = "request"
    /\ table_i = 0
    /\ first_npri_id = NoResult
    /\ route = "none"

\* A value of type str, as opposed to None.
Str(t) == [str |-> t]

\* return value, leaving through the return statement named r.
Return(value, r) ==
    /\ first_npri_id' = value
    /\ route' = r
    /\ rpc' = "done"

\* A step that returns found[1] if it found something and goes on to
\* position next otherwise.
ReturnOrGoOn(found, next) ==
    IF found # <<>>
      THEN Return(Str(found[1]), found[2])
      ELSE rpc' = next /\ UNCHANGED <<first_npri_id, route>>

\* The position after table table_i has been given up: the next table, or
\* the code after the loop over the tables.
AfterTable == IF table_i < Len(Tables) THEN "header" ELSE "text"

\* response = requests.get(...); soup = BeautifulSoup(response.content)
Request ==
    /\ resolver = "static"
    /\ rpc = "request"
    /\ listing' \in Listings
    /\ rpc' = "tables"
    /\ UNCHANGED <<call, tools, resolver, table_i, first_npri_id, route>>

\* requests.get or raise_for_status raises: except RequestException.
RequestFails ==
    /\ resolver = "static"
    /\ rpc = "request"
    /\ Return(None, "network_error")
    /\ UNCHANGED <<call, tools, resolver, listing, table_i>>

\* tables = soup.find_all("table"); if not tables: return None
FindTables ==
    /\ rpc = "tables"
    /\ IF Tables = <<>>
         THEN Return(None, "no_tables") /\ UNCHANGED table_i
         ELSE /\ rpc' = "header"
              /\ table_i' = 0
              /\ UNCHANGED <<first_npri_id, route>>
    /\ UNCHANGED <<call, tools, resolver, listing>>

\* The next iteration of the loop over the tables, up to
\* `if npri_id_index is not None`.
ExamineTable ==
    /\ rpc = "header"
    /\ table_i' = table_i + 1
    /\ rpc' = IF NpriHeaders(Tables[table_i']) # {} THEN "rows"
              ELSE IF table_i' < Len(Tables) THEN "header" ELSE "text"
    /\ UNCHANGED <<call, tools, resolver, listing, first_npri_id, route>>

\* The loop over all_rows that looks at the rows of the company.
CompanyRows ==
    /\ rpc = "rows"
    /\ LET table == Tables[table_i]
           idx == NpriIdIndex(table)
           rows == ReturningRows(table, idx)
       IN ReturnOrGoOn(IF rows = {} THEN <<>>
                       ELSE RowReturn(table[Min(rows)], idx), "links")
    /\ UNCHANGED <<call, tools, resolver, listing, table_i>>

\* The loop over all the links of the table.
TableLinks ==
    /\ rpc = "links"
    /\ ReturnOrGoOn(LinkInTable(Tables[table_i]), "cells")
    /\ UNCHANGED <<call, tools, resolver, listing, table_i>>

\* The loop over all the cells of the table.
TableCells ==
    /\ rpc = "cells"
    /\ ReturnOrGoOn(CellInTable(Tables[table_i]), AfterTable)
    /\ UNCHANGED <<call, tools, resolver, listing, table_i>>

\* The code after the loop over the tables: the known identifiers, then
\* the numbers of the page, which are printed, and return None.
KnownIds ==
    /\ rpc = "text"
    /\ IF KnownIdInText(listing) # <<>>
         THEN Return(Str(KnownIdInText(listing)[1]), "known_id")
         ELSE Return(None, "nothing_found")
    /\ UNCHANGED <<call, tools, resolver, listing, table_i>>

\* scrape_with_selenium, from the launch of the browser to its return:
\* the page the browser renders, the wait for a table, which raises
\* TimeoutException if there is none, and the two loops over the links.
ScrapeWithSelenium ==
    /\ resolver = "selenium"
    /\ rpc = "request"
    /\ \E l \in Listings :
       \E detail \in SUBSET {i \in 1..Len(l) : IsLink(l[i])} :
          /\ listing' = l
          /\ IF FindAllTables(l) = <<>>
               THEN Return(None, "selenium_error")
               ELSE IF LinkWithSelenium(l, detail) # <<>>
                 THEN Return(Str(LinkWithSelenium(l, detail)[1]),
                             LinkWithSelenium(l, detail)[2])
                 ELSE Return(None, "nothing_found")
    /\ UNCHANGED <<call, tools, resolver, table_i>>

\* The import, the launch of the browser or driver.get raises.
ScrapeFails ==
    /\ resolver = "selenium"
    /\ rpc = "request"
    /\ Return(None, "selenium_error")
    /\ UNCHANGED <<call, tools, resolver, listing, table_i>>

InitResolve ==
    /\ InitExtractor
    /\ extractor = "progress"
    /\ npri_id = "1368"
    /\ InitLookup
    /\ ToolsIdle

NextResolve ==
    \/ Request
    \/ RequestFails
    \/ FindTables
    \/ ExamineTable
    \/ CompanyRows
    \/ TableLinks
    \/ TableCells
    \/ KnownIds
    \/ ScrapeFails
    \/ ScrapeWithSelenium

SpecResolve == InitResolve /\ [][NextResolve]_vars


(***************************************************************************)
(* Properties.                                                             *)
(***************************************************************************)
\* The keys of contact_info that were assigned from a literal of the source.
LiteralKeys ==
    IF steps = <<>> THEN {}
    ELSE IF extractor = "progress" THEN LiteralKeysProgress(npri_id, steps)
    ELSE IF extractor = "selenium"
      THEN LiteralKeysSelenium(page_source, dom_raised[2])
    ELSE {}

\* The end of the wait budget.
BudgetEnd ==
    IF extractor = "progress" THEN ProgressPolls * ProgressSleep ELSE end_time

\* local@domain.tld
EmailShape(v) ==
    \E a \in 2..Len(v) : \E d \in (a + 2)..(Len(v) - 2) :
        /\ v[a] = "@"
        /\ v[d] = "."
        /\ \A i \in 1..Len(v) : v[i] \notin Ws /\ (v[i] = "@" => i = a)
        /\ \A i \in (d + 1)..Len(v) : v[i] \in Letters \cup Upper

NineDigits(v) == Len(v) = 9 /\ \A i \in 1..Len(v) : v[i] \in Digits

\* contact_name (stored as "name" by scrape_contact_info_selenium), phone
\* or email is present.
HasContact(r) ==
    r # None /\ DOMAIN r \cap {"contact_name", "name", "phone", "email"} # {}

\* C1: once a method of the cascade has stored a value for a key, every
\* later state of contact_info in the same attempt holds that key with that
\* value.
PrecedenceInvariant ==
    \A i \in 1..Len(steps) : \A j \in i..Len(steps) :
        \A k \in DOMAIN steps[i] :
            k \in DOMAIN steps[j] /\ steps[j][k] = steps[i][k]

\* C2: a returned result is recorded as a success exactly when it holds a
\* contact name, a phone or an email; a map with only other fields is not a
\* success.
ThreeWayClassification ==
    (outcome = "returned" /\ extractor \in {"progress", "selenium"})
        => (SuccessFlag(result) <=> HasContact(result))

DriverClosedOnExit == outcome # "running" => driver # "open"

\* C5: when the wait budget runs out nothing is raised, no detection is
\* recorded, and unless a collaborator fails the methods run on the captured
\* page and their result is what the function returns.
TimeoutIsNotAnError ==
    (timed_out /\ failure = "none")
        => /\ ~detected
           /\ ~exc
           /\ pc \in {"settle", "capture", "extract", "finally", "done"}
           /\ pc \in {"finally", "done"}
                 => /\ captured_at >= 0
                    /\ steps = (IF extractor = "progress"
                                  THEN MethodsProgress(npri_id, page_source)
                                ELSE IF extractor = "selenium"
                                  THEN MethodsSelenium(page_source,
                                           dom_raised[1], dom_raised[2])
                                ELSE MethodsEnhanced(page_source))
                    /\ result = ReturnValue(extractor, ContactInfo)
           /\ pc = "done" => outcome = "returned"

\* The wait of scrape_contact_info_selenium timed out and the attempt still
\* returned fields.
TimeoutIsNotAnErrorWitness ==
    /\ timed_out
    /\ failure = "none"
    /\ extractor = "selenium"
    /\ outcome = "returned"
    /\ ContactInfo # EmptyMap
    /\ result = ContactInfo

\* C6: the page is captured later than the moment an anchor was detected,
\* and later than the end of the budget when none was: a settle delay lies
\* between the end of the wait and the capture, whichever way the wait ended.
SettleBeforeCapture ==
    captured_at >= 0
        => /\ detected => captured_at > detected_at
           /\ timed_out => captured_at > BudgetEnd

\* C7: a poll at which the document shows any of the three anchors ends the
\* wait with content detected.
AnyAnchorDetected == polled # {} => detected

\* C8: no exception leaves an extractor.
NoExceptionEscapes == outcome # "raised"

\* C9: an email held in contact_info has the shape local@domain.tld and a
\* business_number is nine digits.
ValidatedFields ==
    /\ "email" \in DOMAIN ContactInfo => EmailShape(ContactInfo["email"])
    /\ "business_number" \in DOMAIN ContactInfo
          => NineDigits(ContactInfo["business_number"])

\* C10: for an npri_id other than 1368 no field of the result is assigned
\* from a literal of the source.
LiteralsOnlyForTarget ==
    (outcome = "returned" /\ npri_id # "1368") => LiteralKeys = {}

\* The keys a field map may hold.
FieldKeys ==
    {"contact_name", "position", "phone", "email", "language",
     "business_number", "employee_count", "registry_id"}

\* C11: every key of contact_info, whichever extractor built it, is one of
\* the eight field keys.
FieldKeysFixed == DOMAIN ContactInfo \subseteq FieldKeys

\* C12: every key of contact_info holds a non-empty value.
NoEmptyValues == \A k \in DOMAIN ContactInfo : ContactInfo[k] # <<>>

(***************************************************************************)
(* clean_contact_data: the pass over the saved results that produces the   *)
(* final records.                                                          *)
(***************************************************************************)
\* [^>]
NonGtClass == Chars \ {">"}

\* re.sub(r"<[^>]+>", "", s)
RECURSIVE RemoveTags(_)
RemoveTags(s) ==
    IF s = <<>> THEN <<>>
    ELSE IF s[1] = "<" /\ Run(s, 2, NonGtClass) >= 1
            /\ LitAt(s, 2 + Run(s, 2, NonGtClass), <<">">>)
         THEN RemoveTags(SubSeq(s, 3 + Run(s, 2, NonGtClass), Len(s)))
         ELSE <<s[1]>> \o RemoveTags(Tail(s))

\* A substitution that leaves the whitespace as it is.
KeepWs(s) == s

\* re.sub(r"\s+", " ", s)
RECURSIVE CollapseWs(_)
CollapseWs(s) ==
    IF s = <<>> THEN <<>>
    ELSE IF s[1] \in Ws
         THEN <<" ">> \o CollapseWs(SubSeq(s, 1 + Run(s, 1, Ws), Len(s)))
         ELSE <<s[1]>> \o CollapseWs(Tail(s))

\* position after the two re.sub and the strip.
CleanedPosition(position) == Strip(CollapseWs(RemoveTags(position)))

\* The record kept for an item of the results file: items that are not a
\* success or have no contact_info are left out (None); of the fields only
\* position is cleaned.
FinalRecord(r) ==
    IF SuccessFlag(r) /\ r # EmptyMap
      THEN [k \in DOMAIN r |->
              IF k = "position"
                THEN CleanedPosition(r[k])
                ELSE r[k]]
      ELSE None

(***************************************************************************)
(* The writers of the CSV report: save_contact_info_to_csv,                *)
(* convert_json_to_csv and the second half of clean_contact_data.  A row   *)
(* is a function from the columns to their values; the order of the        *)
(* columns is not modelled, and a company's name and identifier are        *)
(* stood for by its place in the list.                                     *)
(***************************************************************************)
\* What scrape_contact_info_selenium and extract_contact_with_progress
\* return: None or a field map that is not empty.
ReportInfos == {None, [phone |-> KnownPhone], [email |-> KnownEmail],
                [phone |-> KnownPhone, position |-> KnownPosition]}

\* The characters position texts are drawn from.
PositionChars == {"<", ">", "b", " ", "\n"}
PositionTexts == UNION {[1..n -> PositionChars] : n \in 0..MaxPosition}

\* result = {"company_name": ..., "npri_id": ..., "contact_info": ...,
\*           "success": contact_info is not None} for every company.
Results(infos) ==
    [i \in 1..Len(infos) |->
        [company_name |-> i, npri_id |-> i, contact_info |-> infos[i],
         success |-> SuccessFlag(infos[i])]]

\* if contact_info:
Truthy(contact_info) == contact_info # None /\ contact_info # EmptyMap

\* all_fields after the loop of all_fields.update(contact_info.keys()).
AllFields(data) ==
    UNION {DOMAIN data[i].contact_info :
              i \in {j \in 1..Len(data) : Truthy(data[j].contact_info)}}

\* contact_info.get(field, "")
Get(contact_info, field) ==
    IF field \in DOMAIN contact_info THEN contact_info[field] ELSE <<>>

\* The row of one company: the columns of base, and for every field the
\* value of contact_info or the empty string.
Row(base, contact_info, fields) ==
    [f \in DOMAIN base \cup fields |->
        IF f \in DOMAIN base THEN base[f]
        ELSE IF Truthy(contact_info) THEN Get(contact_info, f)
        ELSE <<>>]

InitReport ==
    /\ InitExtractor
    /\ extractor = "selenium"
    /\ npri_id = "1368"
    /\ LookupIdle
    /\ BatchIdle /\ IdsFileIdle /\ LoopIdle /\ DownloadIdle
    /\ \E n \in 0..MaxTargets :
          \E infos \in [1..n -> ReportInfos] : contact_data = Results(infos)
    /\ writer \in {"save_contact_info_to_csv", "convert_json_to_csv",
                   "clean_contact_data"}
    /\ fieldnames = {}
    /\ csv_rows = <<>>
    /\ wpc = "start"
    /\ write_error = FALSE

\* improved_contact_info.json holds one company, whose position is any
\* text.
InitClean ==
    /\ InitExtractor
    /\ extractor = "progress"
    /\ npri_id = "1368"
    /\ LookupIdle
    /\ BatchIdle /\ IdsFileIdle /\ LoopIdle /\ DownloadIdle
    /\ \E t \in PositionTexts : contact_data = Results(<<[position |-> t]>>)
    /\ writer = "clean_contact_data"
    /\ fieldnames = {}
    /\ csv_rows = <<>>
    /\ wpc = "start"
    /\ write_error = FALSE

\* save_contact_info_to_csv: contact_info = data.get("contact_info", {})
\* is None for a company without contact information, and the first
\* contact_info.get(field, "") on it raises; the rows before it have been
\* written.
SaveContactInfoToCsv ==
    /\ writer = "save_contact_info_to_csv"
    /\ wpc = "start"
    /\ wpc' = "done"
    /\ IF contact_data = <<>>
         THEN UNCHANGED <<fieldnames, csv_rows, write_error>>
         ELSE LET fields == AllFields(contact_data)
                  bad == {i \in 1..Len(contact_data) :
                             /\ contact_data[i].contact_info = None
                             /\ fields # {}}
                  last == IF bad = {} THEN Len(contact_data) ELSE Min(bad) - 1
              IN /\ fieldnames' = {"company_name", "npri_id"} \cup fields
                 /\ csv_rows' =
                      [i \in 1..last |->
                          [f \in fieldnames' |->
                              IF f \in {"company_name", "npri_id"}
                                THEN contact_data[i][f]
                                ELSE Get(contact_data[i].contact_info, f)]]
                 /\ write_error' = (last < Len(contact_data))
    /\ UNCHANGED <<call, lookup, batch, ids_file, loop, download,
                   contact_data, writer>>

\* convert_json_to_csv, from the list read from company_contact_info.json.
ConvertJsonToCsv ==
    /\ writer = "convert_json_to_csv"
    /\ wpc = "start"
    /\ wpc' = "done"
    /\ IF contact_data = <<>>
         THEN UNCHANGED <<fieldnames, csv_rows>>
         ELSE /\ fieldnames' = {"company_name", "npri_id", "success"}
                                  \cup AllFields(contact_data)
              /\ csv_rows' =
                   [i \in 1..Len(contact_data) |->
                       Row([company_name |-> contact_data[i].company_name,
                            npri_id |-> contact_data[i].npri_id,
                            success |-> contact_data[i].success],
                           contact_data[i].contact_info,
                           AllFields(contact_data))]
    /\ UNCHANGED <<call, lookup, batch, ids_file, loop, download,
                   contact_data, writer, write_error>>

\* cleaned_data: the items with success and contact_info, position cleaned.
RECURSIVE CleanedData(_)
CleanedData(data) ==
    IF data = <<>> THEN <<>>
    ELSE (IF data[1].success /\ Truthy(data[1].contact_info)
            THEN <<[data[1] EXCEPT
                      !.contact_info = FinalRecord(data[1].contact_info)]>>
            ELSE <<>>)
         \o CleanedData(Tail(data))

\* clean_contact_data, from the list read from improved_contact_info.json.
CleanContactData ==
    /\ writer = "clean_contact_data"
    /\ wpc = "start"
    /\ wpc' = "done"
    /\ LET cleaned_data == CleanedData(contact_data)
       IN IF cleaned_data = <<>>
            THEN UNCHANGED <<fieldnames, csv_rows>>
            ELSE /\ fieldnames' = {"company_name", "npri_id"}
                                     \cup AllFields(cleaned_data)
                 /\ csv_rows' =
                      [i \in 1..Len(cleaned_data) |->
                          Row([company_name |-> cleaned_data[i].company_name,
                               npri_id |-> cleaned_data[i].npri_id],
                              cleaned_data[i].contact_info,
                              AllFields(cleaned_data))]
    /\ UNCHANGED <<call, lookup, batch, ids_file, loop, download,
                   contact_data, writer, write_error>>

NextReport ==
    \/ SaveContactInfoToCsv
    \/ ConvertJsonToCsv
    \/ CleanContactData

SpecReport == InitReport /\ [][NextReport]_vars

NextClean == CleanContactData

SpecClean == InitClean /\ [][NextClean]_vars

\* C13: when extract_contact_with_progress has run on the page "Phone:
\* <b>587-315-1181</b>", the final record holds phone = "587-315-1181".
PhoneTagStripped ==
    (/\ extractor = "progress"
     /\ outcome = "returned"
     /\ steps # <<>>
     /\ page_source = <<"Phone:", "<b>587-315-1181</b>">>)
        => /\ FinalRecord(result) # None
           /\ "phone" \in DOMAIN FinalRecord(result)
           /\ FinalRecord(result)["phone"] = KnownPhone

\* C14: no value of contact_info contains "{{".
NoPlaceholders ==
    \A k \in DOMAIN ContactInfo : Occ(ContactInfo[k], <<"{", "{">>) = {}


ScenarioListing ==
    <<Table(TextRegistryId), Td(TextAcmeCorp), A(HrefYear4821, Text4821)>>

\* C16: for the listing whose table has the header row Company, Registry ID
\* and one data row with the text Acme Corp and a link to ./2024/4821 with
\* the text 4821, download_npri_csv_with_selenium returns "4821".
ResolverScenario ==
    (resolver = "static" /\ rpc = "done" /\ listing = ScenarioListing)
        => first_npri_id = Str(Text4821)

\* No row of any table holds a keyword of the company name.
NoKeywordRow ==
    \A t \in 1..Len(Tables) :
        \A r \in 1..Len(Tables[t]) : ~KeywordRow(Tables[t][r])

\* No link of the listing has a year-scoped target.
NoYearLink ==
    \A i \in 1..Len(listing) : IsLink(listing[i]) => ~YearScoped(listing[i].href)

\* C17: when the listing has a table, none of its rows holds a keyword of
\* the company name and no link is year-scoped, the lookup goes through to
\* the scan of the page text and returns no identifier.
TextScanNeverSelects ==
    (/\ resolver = "static"
     /\ rpc = "done"
     /\ route # "network_error"
     /\ Tables # <<>>
     /\ NoKeywordRow
     /\ NoYearLink)
        => route = "nothing_found" /\ first_npri_id = None

\* C18: what either lookup returns is None or a non-empty string of
\* decimal digits.
NumericOrNone ==
    rpc = "done" =>
        \/ first_npri_id = None
        \/ /\ first_npri_id # None
           /\ first_npri_id.str # <<>>
           /\ \A i \in 1..Len(first_npri_id.str) : first_npri_id.str[i] \in Digits

\* The return statements of the loop over the rows of the company.
RowRoutes == {"row_year_link", "row_numeric_link", "row_cell_link"}

\* C19: an identifier returned by the loop over the rows of the company is
\* the text of a link of a row whose text holds, in any case, a keyword of
\* the company name that is longer than three characters.
KeywordFilter ==
    (resolver = "static" /\ rpc = "done" /\ route \in RowRoutes) =>
        \E r \in 1..Len(Tables[table_i]) :
            LET row == Tables[table_i][r]
            IN /\ \E k \in 1..Len(CompanyKeywords) :
                     /\ Len(CompanyKeywords[k]) > 3
                     /\ Occ(Low(GetText(row)), Low(CompanyKeywords[k])) # {}
               /\ \E c \in 1..Len(row) :
                     /\ IsLink(row[c])
                     /\ first_npri_id = Str(Strip(row[c].text))

KeywordFilterWitness ==
    /\ resolver = "static"
    /\ rpc = "done"
    /\ route \in RowRoutes
    /\ first_npri_id = Str(Text4821)
    /\ \E i \in 1..Len(listing) : listing[i] = Td(TextLtd)

\* The row whose iteration returned.
UsedRow ==
    Tables[table_i][Min(ReturningRows(Tables[table_i],
                                      NpriIdIndex(Tables[table_i])))]

\* The links of a row with a year-scoped target and a numeric text.
YearLinks(row) ==
    {c \in 1..Len(row) : /\ IsLink(row[c])
                         /\ YearScoped(row[c].href)
                         /\ IsDigit(Strip(row[c].text))}

\* C20: when the row the identifier comes from has a link with a
\* year-scoped target and a numeric text, the identifier is the text of
\* such a link; otherwise it is the numeric text of the cell of the
\* identifier column.
YearLinkPreferred ==
    (resolver = "static" /\ rpc = "done" /\ route \in RowRoutes) =>
        IF YearLinks(UsedRow) # {}
          THEN \E c \in YearLinks(UsedRow) :
                  first_npri_id = Str(Strip(UsedRow[c].text))
          ELSE /\ Len(UsedRow) > NpriIdIndex(Tables[table_i])
               /\ first_npri_id =
                    Str(Strip(UsedRow[NpriIdIndex(Tables[table_i]) + 1].text))
               /\ IsDigit(first_npri_id.str)

\* The return statements of the loop over all the links of the table.
LinkRoutes == {"table_year_link", "table_href"}

\* No iteration of the loop over the rows of table table_i returns.
NoRowReturns ==
    \A r \in 1..Len(Tables[table_i]) :
        RowReturn(Tables[table_i][r], NpriIdIndex(Tables[table_i])) = <<>>

TextScanAlwaysReached ==
    (/\ resolver = "static"
     /\ rpc = "done"
     /\ route # "network_error"
     /\ first_npri_id = None)
        => route = "nothing_found"

\* The state of the resolver's state machine a position of the lookup
\* stands for.
Phase ==
    CASE rpc \in {"idle", "request", "tables", "header"} -> "NotStarted"
      [] rpc = "rows" -> "TableLocated"
      [] rpc \in {"links", "cells"} -> "RowFiltered"
      [] rpc = "text" -> "NoTableFound"
      [] rpc = "done" /\ first_npri_id = None -> "Exhausted"
      [] OTHER -> "IdentifierFound"

\* The transitions of the state machine; the scan of the page text and the
\* return after it are one step, as are a row's filter and its return.
Transitions ==
    {<<"NotStarted", "NotStarted">>, <<"NotStarted", "TableLocated">>,
     <<"TableLocated", "RowFiltered">>, <<"TableLocated", "IdentifierFound">>,
     <<"RowFiltered", "RowFiltered">>, <<"RowFiltered", "IdentifierFound">>,
     <<"NotStarted", "NoTableFound">>, <<"NoTableFound", "IdentifierFound">>,
     <<"NoTableFound", "Exhausted">>}

\* C23: every step of download_npri_csv_with_selenium on a page it has
\* fetched is a transition of the state machine NotStarted, TableLocated,
\* RowFiltered, IdentifierFound / NotStarted, NoTableFound,
\* TextFallbackScanned, IdentifierFound or Exhausted.
ResolverTransitions ==
    [][(resolver = "static" /\ route' # "network_error")
          => <<Phase, Phase'>> \in Transitions]_vars

\* C24: for every list of per-company results, lists with a company whose
\* contact_info is None included, the writer of the CSV report finishes
\* without an error, writes one row per company, has a column for every
\* field key found in any company, and leaves empty every field a company
\* does not have.
FlatReport ==
    (wpc = "done" /\ contact_data # <<>>) =>
        /\ ~write_error
        /\ Len(csv_rows) = Len(contact_data)
        /\ AllFields(contact_data) \subseteq fieldnames
        /\ \A i \in 1..Len(contact_data) : \A f \in AllFields(contact_data) :
              csv_rows[i][f] =
                  IF Truthy(contact_data[i].contact_info)
                    THEN Get(contact_data[i].contact_info, f)
                    ELSE <<>>

\* The same report, for convert_json_to_csv alone.
FlatReportOfConvert == writer = "convert_json_to_csv" => FlatReport

\* A DOM lookup of Method 2 or of Method 3 raised in a finished call of
\* scrape_contact_info_selenium.
DomLookupRaised ==
    /\ extractor = "selenium"
    /\ pc = "done"
    /\ steps # <<>>
    /\ dom_raised # <<0, 0>>

\* C25: when a DOM lookup of Method 2 or Method 3 raises in
\* scrape_contact_info_selenium, every field the text patterns of Method 1
\* stored is in the returned field map with the value Method 1 gave it, and
\* the methods after the failing one still run: Method 3 stores the known
\* e-mail address it finds after Method 2 raised.
DomFailureKeepsFields ==
    DomLookupRaised =>
        /\ outcome = "returned"
        /\ \A k \in DOMAIN steps[1] :
              k \in DOMAIN result /\ result[k] = steps[1][k]
        /\ (dom_raised[2] = 0 /\ FindElements(page_source, KnownEmail) # {})
              => result.email = KnownEmail

\* The fields of Method 1 are kept: each is in the returned field map.
DomFailureKeepsKeys ==
    DomLookupRaised =>
        /\ outcome = "returned"
        /\ \A k \in DOMAIN steps[1] : k \in DOMAIN result
        /\ (dom_raised[2] = 0 /\ FindElements(page_source, KnownEmail) # {})
              => result.email = KnownEmail

\* v has a substring "<...>": a '<', one or more characters other than '>',
\* and a '>'.
HasTag(v) ==
    \E i \in 1..Len(v), j \in 1..Len(v) :
        /\ v[i] = "<"
        /\ v[j] = ">"
        /\ j > i + 1
        /\ \A k \in (i + 1)..(j - 1) : v[k] # ">"

\* C26: the position clean_contact_data writes has no tag "<...>", no two
\* whitespace characters in a row and no whitespace at either end, and
\* cleaning it once more gives the same text.
PositionNormalForm ==
    (writer = "clean_contact_data" /\ wpc = "done" /\ csv_rows # <<>>
        /\ "position" \in DOMAIN csv_rows[1]) =>
        LET v == csv_rows[1].position
        IN /\ ~HasTag(v)
           /\ \A i \in 1..(Len(v) - 1) : ~(v[i] \in Ws /\ v[i + 1] \in Ws)
           /\ v # <<>> => (v[1] \notin Ws /\ v[Len(v)] \notin Ws)
           /\ CleanedPosition(v) = v

\* clean_contact_data has cleaned a position that had a tag and whitespace.
PositionNormalFormWitness ==
    /\ writer = "clean_contact_data"
    /\ wpc = "done"
    /\ Len(csv_rows) = 1
    /\ HasTag(contact_data[1].contact_info.position)
    /\ \E i \in 1..Len(contact_data[1].contact_info.position) :
          contact_data[1].contact_info.position[i] \in Ws
    /\ csv_rows[1].position # contact_data[1].contact_info.position
    /\ csv_rows[1].position # <<>>

(***************************************************************************)
(* main() of main.py: process_single_company for every company name read   *)
(* from companies.txt.                                                     *)
(***************************************************************************)
\* The names bound at module level in main.py: its imports and its def
\* statements.
ModuleNames ==
    {"os", "sys", "time", "urllib", "Path", "requests", "BeautifulSoup",
     "download_npri_csv_with_selenium", "scrape_with_selenium",
     "create_url_for_company", "get_known_npri_data",
     "process_single_company", "read_companies_from_file", "main"}

\* get_known_npri_data()
KnownNpriData ==
    [c \in {"Pine Cliff Energy Ltd", "Spur Petroleum Ltd",
            "Signalta Resources Ltd"} |->
        IF c = "Pine Cliff Energy Ltd" THEN Str(Text1368) ELSE None]

\* The names companies.txt is drawn from.
CompanyNames == DOMAIN KnownNpriData \cup {"Acme Ltd."}

\* What a lookup finds for a company: an identifier or None.
Found == {None, Str(Text1368), Str(Text4821)}

\* process_single_company(company_name), when the static lookup would find
\* s.static and the Selenium lookup s.selenium: the triple it returns, or the
\* exception it leaves with.  The name it calls for the static lookup is
\* looked up in the globals of the module when the call is made.
ProcessSingleCompany(company_name, s) ==
    IF "scrape_npri_data" \notin ModuleNames
      THEN [raised |-> "NameError"]
    ELSE IF s.static # None
      THEN [company_name |-> company_name, npri_id |-> s.static,
            method |-> "Static Scraping"]
    ELSE IF s.selenium # None
      THEN [company_name |-> company_name, npri_id |-> s.selenium,
            method |-> "Selenium"]
    ELSE IF company_name \in DOMAIN KnownNpriData
            /\ KnownNpriData[company_name] # None
      THEN [company_name |-> company_name,
            npri_id |-> KnownNpriData[company_name], method |-> "Known Data"]
    ELSE [company_name |-> company_name, npri_id |-> None,
          method |-> "Failed"]

InitBatch ==
    /\ InitExtractor
    /\ extractor = "progress"
    /\ npri_id = "1368"
    /\ LookupIdle
    /\ ReportIdle /\ IdsFileIdle /\ LoopIdle /\ DownloadIdle
    /\ \E n \in 0..MaxTargets : companies \in [1..n -> CompanyNames]
    /\ site \in [static : Found, selenium : Found]
    /\ results = <<>>
    /\ mpc = "start"

\* companies = read_companies_from_file("companies.txt"); main returns when
\* there are none.
ReadCompanies ==
    /\ mpc = "start"
    /\ mpc' = IF companies = <<>> THEN "done" ELSE "loop"
    /\ UNCHANGED <<call, lookup, report, ids_file, loop, download,
                   companies, site, results>>

\* One iteration of `for company in companies`: the call, the append and
\* the sleep.  An exception of the call leaves main(), which has no try.
ProcessCompany ==
    /\ mpc = "loop"
    /\ \E r \in {ProcessSingleCompany(companies[Len(results) + 1], site)} :
          IF "raised" \in DOMAIN r
            THEN /\ mpc' = "raised"
                 /\ UNCHANGED results
            ELSE /\ results' = Append(results, r)
                 /\ mpc' = IF Len(results') = Len(companies)
                             THEN "done" ELSE "loop"
    /\ UNCHANGED <<call, lookup, report, ids_file, loop, download,
                   companies, site>>

NextBatch ==
    \/ ReadCompanies
    \/ ProcessCompany

SpecBatch == InitBatch /\ [][NextBatch]_vars

\* The method names of the triples.
Methods == {"Static Scraping", "Selenium", "Known Data", "Failed"}

\* C27: process_single_company always returns a triple, whose method is one
\* of the four names and whose identifier is None exactly when the method
\* is "Failed"; the method is "Static Scraping" exactly when the static
\* lookup finds an identifier, "Selenium" exactly when only the Selenium
\* lookup does, and "Known Data" only when neither does.
ResolutionOrder ==
    /\ mpc # "raised"
    /\ \A i \in 1..Len(results) :
          /\ results[i].company_name = companies[i]
          /\ results[i].method \in Methods
          /\ results[i].npri_id = None <=> results[i].method = "Failed"
          /\ results[i].method = "Static Scraping" <=> site.static # None
          /\ results[i].method = "Selenium" <=>
                (site.static = None /\ site.selenium # None)
          /\ results[i].method = "Known Data" =>
                (site.static = None /\ site.selenium = None)

(***************************************************************************)
(* company_npri_ids.txt: save_results_to_file writes it, and                *)
(* read_npri_ids_from_file and the reader at the head of                    *)
(* process_all_companies of improved_contact_extractor.py read it.  A line  *)
(* is a sequence of characters, without its newline.                        *)
(***************************************************************************)
LineTitle == <<"C", "o", "m", "p", "a", "n", "y", " ", "N", "a", "m", "e", " ", "a", "n", "d", " ", "F", "i", "r", "s", "t", " ", "N", "P", "R", "I", " ", "I", "D", " ", "R", "e", "s", "u", "l", "t", "s">>
LineRule == [i \in 1..RuleLength |-> "="]
LitColonSpace == <<":", " ">>
LitNotFound == <<":", " ", "N", "O", "T", " ", "F", "O", "U", "N", "D", " ", "(">>
LitProcessed == <<"P", "r", "o", "c", "e", "s", "s", "e", "d">>
LitSuccessfully == <<"S", "u", "c", "c", "e", "s", "s", "f", "u", "l", "l", "y">>
LitCompanyNameAnd == <<"C", "o", "m", "p", "a", "n", "y", " ", "N", "a", "m", "e", " ", "a", "n", "d">>
LitCompany == <<"C", "o", "m", "p", "a", "n", "y">>
LitCompanies == <<" ", "c", "o", "m", "p", "a", "n", "i", "e", "s">>
LitFound == <<" ", "f", "o", "u", "n", "d", " ", "N", "P", "R", "I", " ", "I", "D", "s", " ", "f", "o", "r", " ">>
StatusFailed == <<"F", "a", "i", "l", "e", "d">>
StatusSuccess == <<"S", "u", "c", "c", "e", "s", "s">>

\* The company names of the results; each is a line of companies.txt
\* after strip(), so it is not empty and has no whitespace at its ends.
NameWest == <<"A", "c", "m", "e", ":", " ", "W", "e", "s", "t">>
NameCompany == <<"C", "o", "m", "p", "a", "n", "y", " ", "A">>
NameProcessed == <<"P", "r", "o", "c", "e", "s", "s", "e", "d", " ", "O", "i", "l">>
NameSuccessfully == <<"S", "u", "c", "c", "e", "s", "s", "f", "u", "l", "l", "y", " ", "L", "t", "d">>
NameEquals == <<"=", "A">>
ResultNames == {CompanyNameDecoded, NameWest, NameCompany, NameProcessed,
                NameSuccessfully, NameEquals}

\* The triples (company_name, npri_id, status) of a results list.
ResultTriples ==
    {[company_name |-> n, npri_id |-> None, status |-> StatusFailed] :
        n \in ResultNames}
    \cup {[company_name |-> n, npri_id |-> Str(Text1368),
           status |-> StatusSuccess] : n \in ResultNames}

\* str(n) for a number of one digit.
DigitOf(n) == <<SubSeq(<<"0", "1", "2", "3", "4", "5", "6", "7", "8", "9">>,
                       n + 1, n + 1)[1]>>

\* f"{company_name}: {npri_id}" or f"{company_name}: NOT FOUND ({status})"
ResultLine(r) ==
    IF r.npri_id # None
      THEN r.company_name \o LitColonSpace \o r.npri_id.str
      ELSE r.company_name \o LitNotFound \o r.status \o <<")">>

\* The file save_results_to_file writes, as file.readlines() gives it.
FileLines(rs) ==
    LET successful == Cardinality({i \in 1..Len(rs) : rs[i].npri_id # None})
    IN <<LineTitle, LineRule, <<>>>>
       \o [i \in 1..Len(rs) |-> ResultLine(rs[i])]
       \o <<<<>>, <<>>,
            LitProcessed \o <<" ">> \o DigitOf(Len(rs)) \o LitCompanies,
            LitSuccessfully \o LitFound \o DigitOf(successful) \o <<"/">>
                \o DigitOf(Len(rs)) \o LitCompanies>>

\* line.startswith(prefix)
StartsWith(line, prefix) == LitAt(line, 1, prefix)

\* parts = line.split(":", 1); (parts[0].strip(), parts[1].strip()) if the
\* second is all digits, else nothing.
PairOf(line) ==
    LET at == Min({i \in 1..Len(line) : line[i] = ":"})
        company_name == Strip(SubSeq(line, 1, at - 1))
        id == Strip(SubSeq(line, at + 1, Len(line)))
    IN IF IsDigit(id) THEN <<<<company_name, id>>>> ELSE <<>>

\* The loop over the lines of a reader that skips the lines beginning with
\* one of the prefixes.
RECURSIVE ReadPairs(_, _)
ReadPairs(lines, prefixes) ==
    IF lines = <<>> THEN <<>>
    ELSE LET line == Strip(lines[1])
         IN (IF /\ \E i \in 1..Len(line) : line[i] = ":"
                /\ \A prefix \in prefixes : ~StartsWith(line, prefix)
               THEN PairOf(line)
               ELSE <<>>)
            \o ReadPairs(Tail(lines), prefixes)

InitIdsFile ==
    /\ InitExtractor
    /\ extractor = "progress"
    /\ npri_id = "1368"
    /\ LookupIdle
    /\ ReportIdle /\ BatchIdle /\ LoopIdle /\ DownloadIdle
    /\ \E n \in 0..MaxTargets : saved \in [1..n -> ResultTriples]
    /\ file_lines = <<>>
    /\ companies_and_ids = <<>>
    /\ companies_data = <<>>
    /\ fpc = "save"

\* save_results_to_file(results)
SaveResultsToFile ==
    /\ fpc = "save"
    /\ file_lines' = FileLines(saved)
    /\ fpc' = "read"
    /\ UNCHANGED <<call, lookup, report, batch, loop, download,
                   saved, companies_and_ids, companies_data>>

\* companies_and_ids = read_npri_ids_from_file()
ReadNpriIdsFromFile ==
    /\ fpc = "read"
    /\ companies_and_ids' =
          ReadPairs(file_lines, {<<"=">>, LitCompanyNameAnd, LitProcessed,
                                 LitSuccessfully})
    /\ fpc' = "read_again"
    /\ UNCHANGED <<call, lookup, report, batch, loop, download,
                   saved, file_lines, companies_data>>

\* The reader at the head of process_all_companies.
ReadCompaniesData ==
    /\ fpc = "read_again"
    /\ companies_data' = ReadPairs(file_lines, {<<"=">>, LitCompany})
    /\ fpc' = "done"
    /\ UNCHANGED <<call, lookup, report, batch, loop, download,
                   saved, file_lines, companies_and_ids>>

NextIdsFile ==
    \/ SaveResultsToFile
    \/ ReadNpriIdsFromFile
    \/ ReadCompaniesData

SpecIdsFile == InitIdsFile /\ [][NextIdsFile]_vars

\* The pairs of the results whose identifier was found, in their order.
RECURSIVE FoundPairs(_)
FoundPairs(rs) ==
    IF rs = <<>> THEN <<>>
    ELSE (IF rs[1].npri_id # None
            THEN <<<<rs[1].company_name, rs[1].npri_id.str>>>>
            ELSE <<>>)
         \o FoundPairs(Tail(rs))

\* C28: reading back the file save_results_to_file wrote gives the
\* (company_name, npri_id) pairs of the results whose identifier was found,
\* in their order and no others, whatever the company names are, and the
\* reader of process_all_companies gives the same list.
IdsFileRoundTrip ==
    fpc = "done" =>
        /\ companies_and_ids = FoundPairs(saved)
        /\ companies_data = companies_and_ids

\* The round trip for results whose names are all the plain name.
IdsFileRoundTripPlain ==
    (fpc = "done"
        /\ \A i \in 1..Len(saved) : saved[i].company_name = CompanyNameDecoded)
        => /\ companies_and_ids = FoundPairs(saved)
           /\ companies_data = companies_and_ids

(***************************************************************************)
(* The loop over the companies: process_all_companies of                   *)
(* improved_contact_extractor.py around extract_contact_with_progress and  *)
(* main of extract_contact_info.py around scrape_contact_info_selenium.    *)
(* A company's name is stood for by its place in the list.                 *)
(***************************************************************************)
\* result = {"company_name": ..., "npri_id": ..., "contact_info": ...,
\*           "success": contact_info is not None}
Entry ==
    [company_name |-> company, npri_id |-> npri_id, contact_info |-> result,
     success |-> SuccessFlag(result)]

InitLoop ==
    /\ InitExtractor
    /\ extractor \in {"progress", "selenium"}
    /\ LookupIdle
    /\ ReportIdle /\ BatchIdle /\ IdsFileIdle /\ DownloadIdle
    /\ all_results = <<>>
    /\ lpc = "loop"

\* all_results.append(result), the sleep, and the call for the next company.
NextResult ==
    /\ lpc = "loop"
    /\ StartNext
    /\ all_results' = Append(all_results, Entry)
    /\ UNCHANGED <<extractor, lookup, report, batch, ids_file, download, lpc>>

\* all_results.append(result) for the last company of the list; the loop
\* is left.
LastResult ==
    /\ lpc = "loop"
    /\ pc = "done"
    /\ outcome = "returned"
    /\ all_results' = Append(all_results, Entry)
    /\ lpc' = "saved"
    /\ UNCHANGED <<call, lookup, report, batch, ids_file, download>>

NextLoop ==
    \/ Launch
    \/ LaunchFails
    \/ Navigate
    \/ NavigateFails
    \/ InitialWait
    \/ PollProgress
    \/ PollWait
    \/ PollFails
    \/ Settle
    \/ Capture
    \/ CaptureFails
    \/ Extract
    \/ Quit
    \/ NextResult
    \/ LastResult

SpecLoop == InitLoop /\ [][NextLoop]_vars

\* What holds of the result list at every point of the loop.
LoopState ==
    /\ pc = "done" => outcome = "returned"
    /\ Len(all_results) = (IF lpc = "saved" THEN company ELSE company - 1)
    /\ \A i \in 1..Len(all_results) :
          /\ all_results[i].company_name = i
          /\ all_results[i].success <=> all_results[i].contact_info # None
    /\ (lpc = "loop" /\ company > 1) =>
          /\ all_results[company - 1].npri_id = previous.npri_id
          /\ all_results[company - 1].contact_info = previous.result
    /\ lpc = "saved" =>
          /\ all_results[company].npri_id = npri_id
          /\ all_results[company].contact_info = result

\* C29: when the loop over n companies is left the result list has n
\* entries; the i-th has the i-th company's name and identifier and what its
\* call returned, and its success flag is true exactly when its
\* contact_info is not None; the call for a company always returns, so a
\* failure does not stop the loop, and no step changes an entry that is
\* already in the list.
LoopBookkeeping ==
    /\ []LoopState
    /\ [][\A i \in 1..Len(all_results) :
            i <= Len(all_results') /\ all_results'[i] = all_results[i]]_vars

\* The loop was left after two companies: the call for the first failed
\* before any page was read, the second has contact information.
LoopBookkeepingWitness ==
    /\ lpc = "saved"
    /\ company = 2
    /\ ~previous.extracted
    /\ ~all_results[1].success
    /\ all_results[2].success

(***************************************************************************)
(* The wait for the downloaded file: download_npri_csv_with_selenium of    *)
(* npri_csv_downloader.py and download_npri_csv_for_company of             *)
(* process_all_companies.py, from the snapshot of the download directory   *)
(* on.  A file is its name and its suffix; time is counted in the seconds  *)
(* slept, and the statements between two sleeps take none.                 *)
(***************************************************************************)
Downloaders == {"npri_csv_downloader", "process_all_companies"}

\* download_timeout of either function.
DownloadTimeoutOf(d) ==
    IF d = "npri_csv_downloader" THEN NpriDownloadTimeout
    ELSE CompanyDownloadTimeout

SuffixCsv == ".csv"
SuffixCrdownload == ".csv.crdownload"
SuffixTmp == ".tmp"

\* The files that may be in the download directory before the click.
OldFiles == {[name |-> "facilities", suffix |-> SuffixCsv],
             [name |-> "stale", suffix |-> SuffixCrdownload]}

\* The files the browser may write after the click: the download while it
\* is in progress and when it is complete, and a temporary file.
NewFiles == {[name |-> "export", suffix |-> SuffixCrdownload],
             [name |-> "export", suffix |-> SuffixCsv],
             [name |-> "export", suffix |-> SuffixTmp]}

\* final_path of the rename in npri_csv_downloader.py.
FinalPath == [name |-> "NPRI_data", suffix |-> SuffixCsv]

\* file_path == ""
NoPath == [name |-> "", suffix |-> ""]

\* download_path.glob("*") and download_path.glob("*.csv")
Glob(d, files) ==
    IF d = "npri_csv_downloader" THEN files
    ELSE {f \in files : f.suffix = SuffixCsv}

\* Every new file is taken as a finished download.
AllNewFiles(d, new_files) == new_files

\* completed_files = [f for f in new_files
\*                    if not f.name.endswith(".crdownload")];
\* download_npri_csv_for_company takes every file of new_files.
CompletedFiles(d, new_files) ==
    IF d = "npri_csv_downloader"
      THEN {f \in new_files : f.suffix # SuffixCrdownload}
      ELSE new_files

InitDownload ==
    /\ InitExtractor
    /\ extractor = "progress"
    /\ npri_id = "1368"
    /\ LookupIdle
    /\ ReportIdle /\ BatchIdle /\ IdsFileIdle /\ LoopIdle
    /\ downloader \in Downloaders
    /\ directory \in SUBSET OldFiles
    /\ initial_files = {}
    /\ elapsed = 0
    /\ dpc = "snapshot"
    /\ returned = NoResult

\* initial_files = set(download_path.glob(...)), the click, and
\* start_time = time.time().
ClickDownload ==
    /\ dpc = "snapshot"
    /\ initial_files' = Glob(downloader, directory)
    /\ dpc' = "poll"
    /\ UNCHANGED <<call, lookup, report, batch, ids_file, loop,
                   downloader, directory, elapsed, returned>>

\* No element could be clicked: the function returns its failure.
ClickFails ==
    /\ dpc = "snapshot"
    /\ initial_files' = Glob(downloader, directory)
    /\ returned' = [success |-> FALSE, file_path |-> NoPath,
                    message |-> "click failed"]
    /\ dpc' = "returned"
    /\ UNCHANGED <<call, lookup, report, batch, ids_file, loop,
                   downloader, directory, elapsed>>

\* One iteration of `while time.time() - start_time < download_timeout`:
\* a finished file is returned (npri_csv_downloader.py renames it first,
\* and returns the old path when the rename fails); otherwise
\* time.sleep(1), while the browser goes on writing.
PollDownload ==
    /\ dpc = "poll"
    /\ elapsed < DownloadTimeoutOf(downloader)
    /\ LET current_files == Glob(downloader, directory)
           new_files == current_files \ initial_files
           completed_files == CompletedFiles(downloader, new_files)
       IN IF completed_files # {}
            THEN /\ \E downloaded_file \in completed_files :
                      \/ /\ returned' = [success |-> TRUE,
                                         file_path |-> downloaded_file,
                                         message |-> "downloaded"]
                         /\ UNCHANGED directory
                      \/ /\ downloader = "npri_csv_downloader"
                         /\ returned' = [success |-> TRUE,
                                         file_path |-> FinalPath,
                                         message |-> "downloaded"]
                         /\ directory' = (directory \ {downloaded_file})
                                             \cup {FinalPath}
                 /\ dpc' = "returned"
                 /\ UNCHANGED elapsed
            ELSE /\ elapsed' = elapsed + DownloadSleep
                 /\ \E written \in SUBSET NewFiles :
                       directory' = (directory \cap OldFiles) \cup written
                 /\ UNCHANGED <<dpc, returned>>
    /\ UNCHANGED <<call, lookup, report, batch, ids_file, loop,
                   downloader, initial_files>>

\* The loop condition is false: the timeout failure is returned.
DownloadTimesOut ==
    /\ dpc = "poll"
    /\ elapsed >= DownloadTimeoutOf(downloader)
    /\ returned' = [success |-> FALSE, file_path |-> NoPath,
                    message |-> "timeout"]
    /\ dpc' = "returned"
    /\ UNCHANGED <<call, lookup, report, batch, ids_file, loop,
                   downloader, directory, initial_files, elapsed>>

NextDownload ==
    \/ ClickDownload
    \/ ClickFails
    \/ PollDownload
    \/ DownloadTimesOut

\* The function runs on: no step of it waits for anything but its sleep.
SpecDownload ==
    InitDownload /\ [][NextDownload]_vars /\ WF_vars(NextDownload)

\* What holds of the wait at every point.
DownloadState ==
    /\ dpc \in {"poll", "returned"} => elapsed <= DownloadTimeoutOf(downloader)
    /\ dpc = "returned" =>
          /\ returned.success <=> returned.file_path # NoPath
          /\ returned.success =>
                /\ returned.file_path \in directory
                /\ returned.file_path \notin OldFiles
                /\ returned.file_path.suffix # SuffixCrdownload
          /\ (~returned.success /\ returned.message # "click failed") =>
                /\ returned.message = "timeout"
                /\ elapsed = DownloadTimeoutOf(downloader)

\* C30: after the click the polling loop ends, no later than the download
\* timeout; success is returned only with a file that was not in the
\* download directory before the click and is not a ".crdownload" file,
\* and the timeout failure otherwise; file_path is not empty exactly when
\* success is true.
BoundedDownloadWait ==
    /\ []DownloadState
    /\ <>(dpc = "returned")

\* A download that finished after some polls, with another download still
\* in progress in the directory.
BoundedDownloadWaitWitness ==
    /\ dpc = "returned"
    /\ returned.success
    /\ elapsed >= 2
    /\ \E f \in directory \ initial_files : f.suffix = SuffixCrdownload

====
